---- MODULE Spec2Model ----
(***************************************************************************)
(* Message-trigger decision engine of the Squabble XMTP agent.             *)
(*                                                                         *)
(* The repository holds three revisions of the agent's index.ts:           *)
(*   "reply"   src/unnamed/part_000  trigger keywords + reply detection    *)
(*   "state"   src/unnamed/part_001  per-conversation awaiting state       *)
(*   "context" src/unnamed/part_002  context window after a bot message    *)
(* The variable `variant` says which revision is running.  Texts are       *)
(* sequences of one-character strings, so that toLowerCase, trim and       *)
(* includes are computed as JavaScript computes them.                      *)
(***************************************************************************)
EXTENDS Integers, Sequences, FiniteSets, TLC

(***************************************************************************)
(* String primitives                                                       *)
(***************************************************************************)
UpperChars ==
    <<"A", "B", "C", "D", "E", "F", "G", "H", "I", "J", "K", "L", "M",
      "N", "O", "P", "Q", "R", "S", "T", "U", "V", "W", "X", "Y", "Z">>

LowerChars ==
    <<"a", "b", "c", "d", "e", "f", "g", "h", "i", "j", "k", "l", "m",
      "n", "o", "p", "q", "r", "s", "t", "u", "v", "w", "x", "y", "z">>

LowerChar(c) ==
    IF \E i \in 1..Len(UpperChars) : UpperChars[i] = c
    THEN LowerChars[CHOOSE i \in 1..Len(UpperChars) : UpperChars[i] = c]
    ELSE c

toLowerCase(s) ==
    [i \in 1..Len(s) |-> LowerChar(s[i])]

WhiteSpace ==
    {" ", "\n", "\t", "\r"}

SetMin(S) ==
    CHOOSE x \in S : \A y \in S : x <= y

SetMax(S) ==
    CHOOSE x \in S : \A y \in S : x >= y

trim(s) ==
    LET keep == {i \in 1..Len(s) : s[i] \notin WhiteSpace}
    IN  IF keep = {} THEN <<>> ELSE SubSeq(s, SetMin(keep), SetMax(keep))

includes(s, t) ==
    \E i \in 0..(Len(s) - Len(t)) : SubSeq(s, i + 1, i + Len(t)) = t

(***************************************************************************)
(* String literals of the program                                          *)
(***************************************************************************)
TRIGGER_AT ==
    <<"@", "s", "q", "u", "a", "b", "b", "l", "e">>

TRIGGER_ETH ==
    <<"@", "s", "q", "u", "a", "b", "b", "l", "e", ".", "b", "a", "s", "e", ".", "e", "t", "h">>

TRIGGER_SLASH ==
    <<"/", "s", "q", "u", "a", "b", "b", "l", "e">>

START_AT ==
    <<"@", "s", "q", "u", "a", "b", "b", "l", "e", " ", "s", "t", "a", "r", "t">>

START_ETH ==
    <<"@", "s", "q", "u", "a", "b", "b", "l", "e", ".", "b", "a", "s", "e", ".", "e", "t", "h", " ", "s", "t", "a", "r", "t">>

START_SLASH ==
    <<"/", "s", "q", "u", "a", "b", "b", "l", "e", " ", "s", "t", "a", "r", "t">>

BET ==
    <<"b", "e", "t">>

START ==
    <<"s", "t", "a", "r", "t">>

TOOL_HANDLED ==
    <<"T", "O", "O", "L", "_", "H", "A", "N", "D", "L", "E", "D">>

RESET_CONVERSATION_STATE ==
    <<"R", "E", "S", "E", "T", "_", "C", "O", "N", "V", "E", "R", "S", "A", "T", "I", "O", "N", "_", "S", "T", "A", "T", "E">>

REPLIED_WITH ==
    <<"R", "e", "p", "l", "i", "e", "d", " ", "w", "i", "t", "h", " ", "\"">>

TO_AN_EARLIER ==
    <<"\"", " ", "t", "o", " ", "a", "n", " ", "e", "a", "r", "l", "i", "e", "r", " ", "m", "e", "s", "s", "a", "g", "e">>

STR_NULL ==
    <<"n", "u", "l", "l">>

STR_UNDEFINED ==
    <<"u", "n", "d", "e", "f", "i", "n", "e", "d">>

STR_OBJECT ==
    <<"[", "o", "b", "j", "e", "c", "t", " ", "O", "b", "j", "e", "c", "t", "]">>

\* SQUABBLE_TRIGGERS of each revision
SQUABBLE_TRIGGERS(v) ==
    IF v = "state" THEN {TRIGGER_SLASH} ELSE {TRIGGER_AT, TRIGGER_ETH}

\* botMentions of shouldSendHelpHint in each revision
botMentions(v) ==
    IF v = "state"
    THEN {<<"b", "o", "t">>, <<"a", "g", "e", "n", "t">>, <<"a", "i">>,
          <<"h", "e", "l", "p">>}
    ELSE {<<"/", "b", "o", "t">>, <<"/", "a", "g", "e", "n", "t">>,
          <<"/", "a", "i">>, <<"/", "h", "e", "l", "p">>}

\* hasTrigger comparing the whole text with the keyword
hasTrigger_ExactMatch(v, text) ==
    \E trigger \in SQUABBLE_TRIGGERS(v) : text = toLowerCase(trigger)

\* SQUABBLE_TRIGGERS.some(trigger => text.includes(trigger.toLowerCase()))
hasTrigger(v, text) ==
    \E trigger \in SQUABBLE_TRIGGERS(v) : includes(text, toLowerCase(trigger))

(***************************************************************************)
(* JavaScript values carried by a message envelope.  A value is a record   *)
(* tagged by k: "undefined", "null", "str" (s: the text) or "obj" (o: the  *)
(* own properties in insertion order, each [key, val] with val a text).    *)
(***************************************************************************)
JsUndefined ==
    [k |-> "undefined", s |-> <<>>, o |-> <<>>]

JsNull ==
    [k |-> "null", s |-> <<>>, o |-> <<>>]

JsStr(t) ==
    [k |-> "str", s |-> t, o |-> <<>>]

JsObj(props) ==
    [k |-> "obj", s |-> <<>>, o |-> props]

Prop(key, t) ==
    [key |-> key, val |-> t]

\* obj[key]: the property's text, JsUndefined when the object has none
Field(v, key) ==
    IF v.k = "obj" /\ \E i \in 1..Len(v.o) : v.o[i].key = key
    THEN JsStr(v.o[CHOOSE i \in 1..Len(v.o) : v.o[i].key = key].val)
    ELSE JsUndefined

\* JavaScript truthiness of a value
Truthy(v) ==
    \/ v.k = "obj"
    \/ v.k = "str" /\ v.s # <<>>

\* String(value)
String(v) ==
    CASE v.k = "str" -> v.s
      [] v.k = "null" -> STR_NULL
      [] v.k = "undefined" -> STR_UNDEFINED
      [] OTHER -> STR_OBJECT

Quoted(t) ==
    <<"\"">> \o t \o <<"\"">>

RECURSIVE JoinProps(_)
JoinProps(props) ==
    IF props = <<>> THEN <<>>
    ELSE LET p == props[1]
             one == Quoted(p.key) \o <<":">> \o Quoted(p.val)
         IN  IF Len(props) = 1 THEN one
             ELSE one \o <<",">> \o JoinProps(Tail(props))

\* JSON.stringify(value); undefined is not serialised (the result is undefined)
JSONstringify(v) ==
    CASE v.k = "undefined" -> JsUndefined
      [] v.k = "null" -> JsStr(STR_NULL)
      [] v.k = "str" -> JsStr(Quoted(v.s))
      [] OTHER -> JsStr(<<"{">> \o JoinProps(v.o) \o <<"}">>)

(***************************************************************************)
(* Message envelope (DecodedMessage): senderInboxId, conversationId,       *)
(* contentType.typeId, content, fallback and parameters.                   *)
(***************************************************************************)
KEY_CONTENT ==
    <<"c", "o", "n", "t", "e", "n", "t">>

KEY_TEXT ==
    <<"t", "e", "x", "t">>

KEY_MESSAGE ==
    <<"m", "e", "s", "s", "a", "g", "e">>

\* reference tells who wrote the message a reply refers to ("agent", "user";
\* "none" for a message that is no reply); the message itself carries the
\* referenced message's id only
Envelope(sender, conv, typeId, content, fallback, parameters) ==
    [senderInboxId |-> sender, conversationId |-> conv, typeId |-> typeId,
     content |-> content, fallback |-> fallback, parameters |-> parameters,
     reference |-> "none"]

ReplyTo(message, author) ==
    [message EXCEPT !.reference = author]

\* isReplyToAgent taking only replies to the agent's own messages
isReplyToAgent_ChecksTarget(message) ==
    message.typeId = "reply" /\ message.reference = "agent"

\* message.contentType?.typeId === "reply"
isReplyToAgent(message) ==
    message.typeId = "reply"

\* fallbackText.match(/Replied with "(.+)" to an earlier message/): the
\* leftmost start that has a match, the group taken greedily, "." matching
\* no line terminator.  The result is the group, or JsUndefined (no match).
matchRepliedWith(f) ==
    LET lp == Len(REPLIED_WITH)
        ls == Len(TO_AN_EARLIER)
        ends(i) == {j \in (i + lp + 1)..(Len(f) - ls + 1) :
                        /\ SubSeq(f, j, j + ls - 1) = TO_AN_EARLIER
                        /\ \A x \in (i + lp)..(j - 1) : f[x] \notin {"\n", "\r"}}
        starts == {i \in 1..(Len(f) - lp + 1) :
                        /\ SubSeq(f, i, i + lp - 1) = REPLIED_WITH
                        /\ ends(i) # {}}
    IN  IF starts = {} THEN JsUndefined
        ELSE LET i == SetMin(starts)
             IN  JsStr(SubSeq(f, i + lp, SetMax(ends(i)) - 1))

\* extractMessageContent of the "reply" revision
extractMessageContentReply(message) ==
    IF message.typeId = "reply"
    THEN IF message.content.k = "obj" /\ Truthy(Field(message.content, KEY_CONTENT))
         THEN JsStr(String(Field(message.content, KEY_CONTENT)))
         ELSE JSONstringify(message.content)
    ELSE JsStr(String(message.content))

\* extractMessageContentContext without the guard for a null or undefined
\* reply payload: such a payload goes to JSON.stringify
extractMessageContentContext_NoNullGuard(message) ==
    LET replyContent == message.content
        fallback == message.fallback
        params == message.parameters
    IN  IF message.typeId = "reply"
        THEN CASE replyContent.k = "obj" /\ Truthy(Field(replyContent, KEY_CONTENT)) ->
                    JsStr(String(Field(replyContent, KEY_CONTENT)))
               [] replyContent.k = "obj" /\ Truthy(Field(replyContent, KEY_TEXT)) ->
                    JsStr(String(Field(replyContent, KEY_TEXT)))
               [] replyContent.k = "obj" /\ Truthy(Field(replyContent, KEY_MESSAGE)) ->
                    JsStr(String(Field(replyContent, KEY_MESSAGE)))
               [] fallback.k = "str" /\ Truthy(fallback) ->
                    IF Truthy(matchRepliedWith(fallback.s))
                    THEN matchRepliedWith(fallback.s)
                    ELSE fallback
               [] params.k = "obj" /\ Truthy(Field(params, KEY_CONTENT)) ->
                    JsStr(String(Field(params, KEY_CONTENT)))
               [] params.k = "obj" /\ Truthy(Field(params, KEY_TEXT)) ->
                    JsStr(String(Field(params, KEY_TEXT)))
               [] OTHER -> JSONstringify(replyContent)
        ELSE IF message.content.k \in {"null", "undefined"}
             THEN JsStr(<<>>)
             ELSE JsStr(String(message.content))

\* extractMessageContentContext trying content.text before content.content
extractMessageContentContext_TextFirst(message) ==
    LET replyContent == message.content
        fallback == message.fallback
        params == message.parameters
    IN  IF message.typeId = "reply"
        THEN CASE replyContent.k = "obj" /\ Truthy(Field(replyContent, KEY_TEXT)) ->
                    JsStr(String(Field(replyContent, KEY_TEXT)))
               [] replyContent.k = "obj" /\ Truthy(Field(replyContent, KEY_CONTENT)) ->
                    JsStr(String(Field(replyContent, KEY_CONTENT)))
               [] replyContent.k = "obj" /\ Truthy(Field(replyContent, KEY_MESSAGE)) ->
                    JsStr(String(Field(replyContent, KEY_MESSAGE)))
               [] fallback.k = "str" /\ Truthy(fallback) ->
                    IF Truthy(matchRepliedWith(fallback.s))
                    THEN matchRepliedWith(fallback.s)
                    ELSE fallback
               [] params.k = "obj" /\ Truthy(Field(params, KEY_CONTENT)) ->
                    JsStr(String(Field(params, KEY_CONTENT)))
               [] params.k = "obj" /\ Truthy(Field(params, KEY_TEXT)) ->
                    JsStr(String(Field(params, KEY_TEXT)))
               [] replyContent.k \in {"null", "undefined"} -> JsStr(<<>>)
               [] OTHER -> JSONstringify(replyContent)
        ELSE IF message.content.k \in {"null", "undefined"}
             THEN JsStr(<<>>)
             ELSE JsStr(String(message.content))

\* extractMessageContent of the "context" revision
extractMessageContentContext(message) ==
    LET replyContent == message.content
        fallback == message.fallback
        params == message.parameters
    IN  IF message.typeId = "reply"
        THEN CASE replyContent.k = "obj" /\ Truthy(Field(replyContent, KEY_CONTENT)) ->
                    JsStr(String(Field(replyContent, KEY_CONTENT)))
               [] replyContent.k = "obj" /\ Truthy(Field(replyContent, KEY_TEXT)) ->
                    JsStr(String(Field(replyContent, KEY_TEXT)))
               [] replyContent.k = "obj" /\ Truthy(Field(replyContent, KEY_MESSAGE)) ->
                    JsStr(String(Field(replyContent, KEY_MESSAGE)))
               [] fallback.k = "str" /\ Truthy(fallback) ->
                    IF Truthy(matchRepliedWith(fallback.s))
                    THEN matchRepliedWith(fallback.s)
                    ELSE fallback
               [] params.k = "obj" /\ Truthy(Field(params, KEY_CONTENT)) ->
                    JsStr(String(Field(params, KEY_CONTENT)))
               [] params.k = "obj" /\ Truthy(Field(params, KEY_TEXT)) ->
                    JsStr(String(Field(params, KEY_TEXT)))
               [] replyContent.k \in {"null", "undefined"} -> JsStr(<<>>)
               [] OTHER -> JSONstringify(replyContent)
        ELSE IF message.content.k \in {"null", "undefined"}
             THEN JsStr(<<>>)
             ELSE JsStr(String(message.content))

\* the text handleMessage works on: extractMessageContent(message), or
\* String(message.content) in the "state" revision
extractMessageContent(v, message) ==
    CASE v = "reply" -> extractMessageContentReply(message)
      [] v = "state" -> JsStr(String(message.content))
      [] OTHER -> extractMessageContentContext(message)

(***************************************************************************)
(* Conversation state store of the "state" revision                        *)
(***************************************************************************)
STATE_TIMEOUT ==
    60 * 1000

MAX_CONTEXT_MESSAGES ==
    5

CONTEXT_WINDOW_MS ==
    5 * 60 * 1000

\* conversationStates[id] of a conversation never accessed
NoState ==
    [absent |-> TRUE]

ConversationState(waiting, command, count, t) ==
    [isWaitingForResponse |-> waiting, lastCommand |-> command,
     messageCount |-> count, lastUpdate |-> t]

\* newState stamped with the epoch in place of the present instant
newState_ZeroStamp(t) ==
    ConversationState(FALSE, <<>>, 0, 0)

\* the newState literal of getConversationState and the default of the setters
newState(t) ==
    ConversationState(FALSE, <<>>, 0, t)

\* getConversationState storing the fresh record after a timeout but
\* returning the record it read
getConversationState_ReturnsStale(states, conversationId, t) ==
    LET state == states[conversationId]
        reset == [states |-> [states EXCEPT ![conversationId] = newState(t)],
                  state |-> newState(t)]
    IN  IF state = NoState THEN reset
        ELSE IF t - state.lastUpdate > STATE_TIMEOUT
        THEN [states |-> reset.states, state |-> state]
        ELSE IF state.messageCount >= MAX_CONTEXT_MESSAGES THEN reset
        ELSE [states |-> states, state |-> state]

\* getConversationState without the expiry check
getConversationState_NoTimeout(states, conversationId, t) ==
    LET state == states[conversationId]
        reset == [states |-> [states EXCEPT ![conversationId] = newState(t)],
                  state |-> newState(t)]
    IN  IF state = NoState THEN reset
        ELSE IF state.messageCount >= MAX_CONTEXT_MESSAGES THEN reset
        ELSE [states |-> states, state |-> state]

\* getConversationState resetting only above the turn ceiling
getConversationState_CeilingOffByOne(states, conversationId, t) ==
    LET state == states[conversationId]
        reset == [states |-> [states EXCEPT ![conversationId] = newState(t)],
                  state |-> newState(t)]
    IN  IF state = NoState THEN reset
        ELSE IF t - state.lastUpdate > STATE_TIMEOUT THEN reset
        ELSE IF state.messageCount > MAX_CONTEXT_MESSAGES THEN reset
        ELSE [states |-> states, state |-> state]

\* getConversationState expiring a state that is exactly STATE_TIMEOUT old
getConversationState_ExpiresAtTimeout(states, conversationId, t) ==
    LET state == states[conversationId]
        reset == [states |-> [states EXCEPT ![conversationId] = newState(t)],
                  state |-> newState(t)]
    IN  IF state = NoState THEN reset
        ELSE IF t - state.lastUpdate >= STATE_TIMEOUT THEN reset
        ELSE IF state.messageCount >= MAX_CONTEXT_MESSAGES THEN reset
        ELSE [states |-> states, state |-> state]

\* getConversationState refreshing lastUpdate on every read of a live state
getConversationState_RefreshesOnRead(states, conversationId, t) ==
    LET state == states[conversationId]
        reset == [states |-> [states EXCEPT ![conversationId] = newState(t)],
                  state |-> newState(t)]
        read == IF state = NoState THEN state
                ELSE [state EXCEPT !.lastUpdate = t]
    IN  IF state = NoState THEN reset
        ELSE IF t - state.lastUpdate > STATE_TIMEOUT THEN reset
        ELSE IF state.messageCount >= MAX_CONTEXT_MESSAGES THEN reset
        ELSE [states |-> [states EXCEPT ![conversationId] = read], state |-> read]

\* getConversationState counting every read of a live state as a turn
getConversationState_CountsReads(states, conversationId, t) ==
    LET state == states[conversationId]
        reset == [states |-> [states EXCEPT ![conversationId] = newState(t)],
                  state |-> newState(t)]
        read == IF state = NoState THEN state
                ELSE [state EXCEPT !.messageCount = state.messageCount + 1]
    IN  IF state = NoState THEN reset
        ELSE IF t - state.lastUpdate > STATE_TIMEOUT THEN reset
        ELSE IF state.messageCount >= MAX_CONTEXT_MESSAGES THEN reset
        ELSE [states |-> [states EXCEPT ![conversationId] = read], state |-> read]

getConversationState(states, conversationId, t) ==
    LET state == states[conversationId]
        reset == [states |-> [states EXCEPT ![conversationId] = newState(t)],
                  state |-> newState(t)]
    IN  IF state = NoState THEN reset
        ELSE IF t - state.lastUpdate > STATE_TIMEOUT THEN reset
        ELSE IF state.messageCount >= MAX_CONTEXT_MESSAGES THEN reset
        ELSE [states |-> states, state |-> state]

\* updateConversationState that does not count the turn
updateConversationState_KeepsCount(states, conversationId, isWaitingForResponse, t) ==
    LET currentState == IF states[conversationId] = NoState
                        THEN newState(t) ELSE states[conversationId]
    IN  [states EXCEPT ![conversationId] =
            ConversationState(isWaitingForResponse, currentState.lastCommand,
                              currentState.messageCount, t)]

updateConversationState(states, conversationId, isWaitingForResponse, t) ==
    LET currentState == IF states[conversationId] = NoState
                        THEN newState(t) ELSE states[conversationId]
    IN  [states EXCEPT ![conversationId] =
            ConversationState(isWaitingForResponse, currentState.lastCommand,
                              currentState.messageCount + 1, t)]

\* setConversationState that does not count the turn
setConversationState_KeepsCount(states, conversationId, isWaitingForResponse, command, t) ==
    LET currentState == IF states[conversationId] = NoState
                        THEN newState(t) ELSE states[conversationId]
    IN  [states EXCEPT ![conversationId] =
            ConversationState(isWaitingForResponse, command,
                              currentState.messageCount, t)]

\* setConversationState counting the turn twice
setConversationState_CountsTwice(states, conversationId, isWaitingForResponse, command, t) ==
    LET currentState == IF states[conversationId] = NoState
                        THEN newState(t) ELSE states[conversationId]
    IN  [states EXCEPT ![conversationId] =
            ConversationState(isWaitingForResponse, command,
                              currentState.messageCount + 2, t)]

\* setConversationState keeping the command the record already holds
setConversationState_KeepsCommand(states, conversationId, isWaitingForResponse, command, t) ==
    LET currentState == IF states[conversationId] = NoState
                        THEN newState(t) ELSE states[conversationId]
    IN  [states EXCEPT ![conversationId] =
            ConversationState(isWaitingForResponse, currentState.lastCommand,
                              currentState.messageCount + 1, t)]

setConversationState(states, conversationId, isWaitingForResponse, command, t) ==
    LET currentState == IF states[conversationId] = NoState
                        THEN newState(t) ELSE states[conversationId]
    IN  [states EXCEPT ![conversationId] =
            ConversationState(isWaitingForResponse, command,
                              currentState.messageCount + 1, t)]

(***************************************************************************)
(* Context window of the "context" revision                                *)
(***************************************************************************)
\* recentAgentMessages[id] of a conversation the agent never sent into
NoRecent ==
    [absent |-> TRUE]

\* trackAgentMessage keeping one entry for all conversations
trackAgentMessage_OneGlobalEntry(recent, conversationId, messageId, t) ==
    [c \in DOMAIN recent |-> [timestamp |-> t, messageId |-> messageId]]

trackAgentMessage(recent, conversationId, messageId, t) ==
    [recent EXCEPT ![conversationId] = [timestamp |-> t, messageId |-> messageId]]

\* isWithinContextWindow with a strict comparison
isWithinContextWindow_Strict(recent, conversationId, t) ==
    LET recentMessage == recent[conversationId]
    IN  IF recentMessage = NoRecent THEN FALSE
        ELSE t - recentMessage.timestamp < CONTEXT_WINDOW_MS

\* isWithinContextWindow that never lets a tracked send age out
isWithinContextWindow_NoExpiry(recent, conversationId, t) ==
    LET recentMessage == recent[conversationId]
    IN  IF recentMessage = NoRecent THEN FALSE
        ELSE TRUE

isWithinContextWindow(recent, conversationId, t) ==
    LET recentMessage == recent[conversationId]
    IN  IF recentMessage = NoRecent THEN FALSE
        ELSE t - recentMessage.timestamp <= CONTEXT_WINDOW_MS

(***************************************************************************)
(* Trigger evaluation.  Each evaluator yields [throws, respond]; the       *)
(* "state" one also yields the store, which its state read may change, and *)
(* the state it read.                                                      *)
(***************************************************************************)
\* part_000: messageContent.toLowerCase() raises when the extraction gave
\* undefined (JSON.stringify of an undefined reply payload)
shouldRespondToMessageReply(message) ==
    LET messageContent == extractMessageContentReply(message)
    IN  IF messageContent.k # "str" THEN [throws |-> TRUE, respond |-> FALSE]
        ELSE IF isReplyToAgent(message) THEN [throws |-> FALSE, respond |-> TRUE]
        ELSE [throws |-> FALSE,
              respond |-> hasTrigger("reply", trim(toLowerCase(messageContent.s)))]

shouldRespondToMessageState(text, states, conversationId, t) ==
    LET lowerMessage == trim(toLowerCase(text))
        got == getConversationState(states, conversationId, t)
    IN  [throws |-> FALSE, states |-> got.states, state |-> got.state,
         respond |-> IF got.state.isWaitingForResponse THEN TRUE
                     ELSE hasTrigger("state", lowerMessage)]

\* shouldRespondToMessageContext without the special case for an empty reply
shouldRespondToMessageContext_DropsEmptyReply(message, recent, t) ==
    LET messageContent == extractMessageContentContext(message).s
    IN  [throws |-> FALSE,
         respond |->
            IF messageContent = <<>> \/ trim(messageContent) = <<>>
            THEN FALSE
            ELSE IF isReplyToAgent(message) THEN TRUE
            ELSE IF isWithinContextWindow(recent, message.conversationId, t) THEN TRUE
            ELSE hasTrigger("context", trim(toLowerCase(messageContent)))]

\* shouldRespondToMessageContext consulting the context window before the
\* check for empty content
shouldRespondToMessageContext_WindowFirst(message, recent, t) ==
    LET messageContent == extractMessageContentContext(message).s
    IN  [throws |-> FALSE,
         respond |->
            IF isWithinContextWindow(recent, message.conversationId, t) THEN TRUE
            ELSE IF messageContent = <<>> \/ trim(messageContent) = <<>>
            THEN FALSE
            ELSE IF isReplyToAgent(message) THEN TRUE
            ELSE hasTrigger("context", trim(toLowerCase(messageContent)))]

shouldRespondToMessageContext(message, recent, t) ==
    LET messageContent == extractMessageContentContext(message).s
    IN  [throws |-> FALSE,
         respond |->
            IF messageContent = <<>> \/ trim(messageContent) = <<>>
            THEN IF message.typeId = "reply"
                 THEN isWithinContextWindow(recent, message.conversationId, t)
                 ELSE FALSE
            ELSE IF isReplyToAgent(message) THEN TRUE
            ELSE IF isWithinContextWindow(recent, message.conversationId, t) THEN TRUE
            ELSE hasTrigger("context", trim(toLowerCase(messageContent)))]

shouldSendHelpHint(v, text) ==
    LET lowerMessage == trim(toLowerCase(text))
    IN  /\ \E mention \in botMentions(v) : includes(lowerMessage, mention)
        /\ ~hasTrigger(v, lowerMessage)

(***************************************************************************)
(* handleMessage, from the conversation lookup's result to its next await. *)
(* Each yields [next, out, agentInput]; the "state" one also yields the     *)
(* store it leaves and the state its trigger evaluation read (NoState when *)
(* shouldRespondToMessage was not called):                                 *)
(*   next = "idle"     handleMessage returns                               *)
(*   next = "send"     awaits conversation.send(out)                       *)
(*   next = "agent"    awaits initializeAgent / processMessage(agentInput) *)
(*   next = "apology"  an exception reached the catch block                *)
(***************************************************************************)
NoText ==
    <<>>

HINT ==
    [kind |-> "hint", text |-> NoText]

BET_PROMPT ==
    [kind |-> "betPrompt", text |-> NoText]

NoSend ==
    [kind |-> "none", text |-> NoText]

Response(text) ==
    [kind |-> "response", text |-> text]

Outcome(next, out, agentInput) ==
    [next |-> next, out |-> out, agentInput |-> agentInput]

handleMessageReply(message) ==
    LET extracted == extractMessageContentReply(message)
        verdict == shouldRespondToMessageReply(message)
        messageContent == extracted.s
        lowerMessage == toLowerCase(messageContent)
    IN  IF verdict.throws THEN Outcome("apology", NoSend, NoText)
        ELSE IF ~verdict.respond
        THEN IF shouldSendHelpHint("reply", messageContent)
             THEN Outcome("send", HINT, NoText)
             ELSE Outcome("idle", NoSend, NoText)
        ELSE IF /\ ~isReplyToAgent(message)
                /\ includes(lowerMessage, START_ETH) \/ includes(lowerMessage, START_AT)
                /\ ~includes(lowerMessage, BET)
        THEN Outcome("send", BET_PROMPT, NoText)
        ELSE Outcome("agent", NoSend, messageContent)

\* handleMessageState forwarding the normalised text in the waiting state
handleMessageState_ForwardsNormalised(message, states, t) ==
    LET messageContent == String(message.content)
        id == message.conversationId
        got == getConversationState(states, id, t)
        hasNewTrigger == hasTrigger("state", toLowerCase(messageContent))
        states1 == IF got.state.isWaitingForResponse /\ hasNewTrigger
                   THEN updateConversationState(got.states, id, FALSE, t)
                   ELSE got.states
        verdict == shouldRespondToMessageState(messageContent, states1, id, t)
        lowerMessage == toLowerCase(messageContent)
    IN  IF got.state.isWaitingForResponse /\ ~hasNewTrigger
        THEN [o |-> Outcome("agent", NoSend, trim(toLowerCase(messageContent))),
              states |-> got.states, evaluated |-> NoState]
        ELSE IF ~verdict.respond
        THEN IF shouldSendHelpHint("state", messageContent)
             THEN [o |-> Outcome("send", HINT, NoText), states |-> verdict.states,
                   evaluated |-> verdict.state]
             ELSE [o |-> Outcome("idle", NoSend, NoText), states |-> verdict.states,
                   evaluated |-> verdict.state]
        ELSE IF includes(lowerMessage, START_SLASH) /\ ~includes(lowerMessage, BET)
        THEN [o |-> Outcome("send", BET_PROMPT, NoText),
              states |-> setConversationState(verdict.states, id, TRUE, START_SLASH, t),
              evaluated |-> verdict.state]
        ELSE [o |-> Outcome("agent", NoSend, messageContent), states |-> verdict.states,
              evaluated |-> verdict.state]

\* handleMessageState without the new-trigger check of the waiting state
handleMessageState_IgnoresNewTrigger(message, states, t) ==
    LET messageContent == String(message.content)
        id == message.conversationId
        got == getConversationState(states, id, t)
        hasNewTrigger == FALSE
        states1 == IF got.state.isWaitingForResponse /\ hasNewTrigger
                   THEN updateConversationState(got.states, id, FALSE, t)
                   ELSE got.states
        verdict == shouldRespondToMessageState(messageContent, states1, id, t)
        lowerMessage == toLowerCase(messageContent)
    IN  IF got.state.isWaitingForResponse /\ ~hasNewTrigger
        THEN [o |-> Outcome("agent", NoSend, messageContent), states |-> got.states,
              evaluated |-> NoState]
        ELSE IF ~verdict.respond
        THEN IF shouldSendHelpHint("state", messageContent)
             THEN [o |-> Outcome("send", HINT, NoText), states |-> verdict.states,
                   evaluated |-> verdict.state]
             ELSE [o |-> Outcome("idle", NoSend, NoText), states |-> verdict.states,
                   evaluated |-> verdict.state]
        ELSE IF includes(lowerMessage, START_SLASH) /\ ~includes(lowerMessage, BET)
        THEN [o |-> Outcome("send", BET_PROMPT, NoText),
              states |-> setConversationState(verdict.states, id, TRUE, START_SLASH, t),
              evaluated |-> verdict.state]
        ELSE [o |-> Outcome("agent", NoSend, messageContent), states |-> verdict.states,
              evaluated |-> verdict.state]

\* handleMessageState counting a message it ignores as a turn
handleMessageState_CountsIgnored(message, states, t) ==
    LET messageContent == String(message.content)
        id == message.conversationId
        got == getConversationState(states, id, t)
        hasNewTrigger == hasTrigger("state", toLowerCase(messageContent))
        states1 == IF got.state.isWaitingForResponse /\ hasNewTrigger
                   THEN updateConversationState(got.states, id, FALSE, t)
                   ELSE got.states
        verdict == shouldRespondToMessageState(messageContent, states1, id, t)
        lowerMessage == toLowerCase(messageContent)
    IN  IF got.state.isWaitingForResponse /\ ~hasNewTrigger
        THEN [o |-> Outcome("agent", NoSend, messageContent), states |-> got.states,
              evaluated |-> NoState]
        ELSE IF ~verdict.respond
        THEN IF shouldSendHelpHint("state", messageContent)
             THEN [o |-> Outcome("send", HINT, NoText), states |-> verdict.states,
                   evaluated |-> verdict.state]
             ELSE [o |-> Outcome("idle", NoSend, NoText),
                   states |-> updateConversationState(verdict.states, id, FALSE, t),
                   evaluated |-> verdict.state]
        ELSE IF includes(lowerMessage, START_SLASH) /\ ~includes(lowerMessage, BET)
        THEN [o |-> Outcome("send", BET_PROMPT, NoText),
              states |-> setConversationState(verdict.states, id, TRUE, START_SLASH, t),
              evaluated |-> verdict.state]
        ELSE [o |-> Outcome("agent", NoSend, messageContent), states |-> verdict.states,
              evaluated |-> verdict.state]

handleMessageState(message, states, t) ==
    LET messageContent == String(message.content)
        id == message.conversationId
        got == getConversationState(states, id, t)
        hasNewTrigger == hasTrigger("state", toLowerCase(messageContent))
        states1 == IF got.state.isWaitingForResponse /\ hasNewTrigger
                   THEN updateConversationState(got.states, id, FALSE, t)
                   ELSE got.states
        verdict == shouldRespondToMessageState(messageContent, states1, id, t)
        lowerMessage == toLowerCase(messageContent)
    IN  IF got.state.isWaitingForResponse /\ ~hasNewTrigger
        THEN [o |-> Outcome("agent", NoSend, messageContent), states |-> got.states,
              evaluated |-> NoState]
        ELSE IF ~verdict.respond
        THEN IF shouldSendHelpHint("state", messageContent)
             THEN [o |-> Outcome("send", HINT, NoText), states |-> verdict.states,
                   evaluated |-> verdict.state]
             ELSE [o |-> Outcome("idle", NoSend, NoText), states |-> verdict.states,
                   evaluated |-> verdict.state]
        ELSE IF includes(lowerMessage, START_SLASH) /\ ~includes(lowerMessage, BET)
        THEN [o |-> Outcome("send", BET_PROMPT, NoText),
              states |-> setConversationState(verdict.states, id, TRUE, START_SLASH, t),
              evaluated |-> verdict.state]
        ELSE [o |-> Outcome("agent", NoSend, messageContent), states |-> verdict.states,
              evaluated |-> verdict.state]

\* handleMessageContext answering a bot mention with the hint before it
\* asks whether the message is admitted
handleMessageContext_HintFirst(message, recent, t) ==
    LET messageContent == extractMessageContentContext(message).s
        verdict == shouldRespondToMessageContext(message, recent, t)
    IN  IF shouldSendHelpHint("context", messageContent)
        THEN Outcome("send", HINT, NoText)
        ELSE IF ~verdict.respond
        THEN Outcome("idle", NoSend, NoText)
        ELSE Outcome("agent", NoSend, messageContent)

handleMessageContext(message, recent, t) ==
    LET messageContent == extractMessageContentContext(message).s
        verdict == shouldRespondToMessageContext(message, recent, t)
    IN  IF ~verdict.respond
        THEN IF shouldSendHelpHint("context", messageContent)
             THEN Outcome("send", HINT, NoText)
             ELSE Outcome("idle", NoSend, NoText)
        ELSE Outcome("agent", NoSend, messageContent)

(***************************************************************************)
(* processMessage: the agent's chunks concatenated, or the fixed text      *)
(* returned when the agent stream raises.                                  *)
(***************************************************************************)
SORRY ==
    <<"S", "o", "r", "r", "y", ",", " ", "I", " ", "e", "n", "c", "o", "u", "n", "t", "e", "r", "e", "d", " ", "a", "n", " ", "e", "r", "r", "o", "r", " ", "w", "h", "i", "l", "e", " ", "p", "r", "o", "c", "e", "s", "s", "i", "n", "g", " ", "y", "o", "u", "r", " ", "r", "e", "q", "u", "e", "s", "t", ".", " ", "P", "l", "e", "a", "s", "e", " ", "t", "r", "y", " ", "a", "g", "a", "i", "n", " ", "l", "a", "t", "e", "r", ".">>

\* processMessage returning what it has collected when the stream raises
processMessage_EmptyOnError(v, outcome) ==
    IF outcome.k = "streamThrows" THEN <<>>
    ELSE IF v = "reply" /\ includes(outcome.s, RESET_CONVERSATION_STATE) THEN <<>>
    ELSE trim(outcome.s)

processMessage(v, outcome) ==
    IF outcome.k = "streamThrows" THEN SORRY
    ELSE IF v = "reply" /\ includes(outcome.s, RESET_CONVERSATION_STATE) THEN <<>>
    ELSE trim(outcome.s)

(***************************************************************************)
(* The catch block of handleMessage: the apology goes to the conversation  *)
(* when the handle was resolved before the error; the error itself is only *)
(* logged.                                                                 *)
(***************************************************************************)
APOLOGY ==
    <<"I", " ", "e", "n", "c", "o", "u", "n", "t", "e", "r", "e", "d", " ", "a", "n", " ", "e", "r", "r", "o", "r", " ", "w", "h", "i", "l", "e", " ", "p", "r", "o", "c", "e", "s", "s", "i", "n", "g", " ", "y", "o", "u", "r", " ", "r", "e", "q", "u", "e", "s", "t", ".", " ", "P", "l", "e", "a", "s", "e", " ", "t", "r", "y", " ", "a", "g", "a", "i", "n", " ", "l", "a", "t", "e", "r", ".">>

\* the message of the Error thrown when getConversationById gives null
COULD_NOT_FIND ==
    <<"C", "o", "u", "l", "d", " ", "n", "o", "t", " ", "f", "i", "n", "d", " ", "c", "o", "n", "v", "e", "r", "s", "a", "t", "i", "o", "n", " ", "f", "o", "r", " ", "I", "D", ":", " ">>

\* the text of a conversation id
IdText(conversationId) ==
    IF conversationId = "c1" THEN <<"c", "1">> ELSE <<"c", "2">>

ERR_NOT_FOUND(conversationId) ==
    COULD_NOT_FIND \o IdText(conversationId)

\* the message of an error raised by a collaborator (the network, the agent)
ERR_EXTERNAL ==
    <<"E", "C", "O", "N", "N", "R", "E", "S", "E", "T">>

\* handleMessage's `conversation` before the lookup settles
NoConversation ==
    "null"

Apology(text) ==
    [kind |-> "apology", text |-> text]

\* catchBlock with the error's message appended to what is sent
catchBlock_LeaksError(handle, error) ==
    IF handle # NoConversation THEN Apology(APOLOGY \o <<" ">> \o error) ELSE NoSend

\* catchBlock sending whether or not the conversation was resolved
catchBlock_IgnoresHandle(handle, error) ==
    Apology(APOLOGY)

catchBlock(handle, error) ==
    IF handle # NoConversation THEN Apology(APOLOGY) ELSE NoSend

(***************************************************************************)
(* Inputs: the envelopes the stream delivers, the outcomes of the external *)
(* calls, and the clock.                                                   *)
(***************************************************************************)
\* bound on the number of clock steps a run takes
MaxTicks ==
    2

Variants ==
    {"reply", "state", "context"}

Convs ==
    {"c1", "c2"}

MessageIds ==
    {"m1"}

\* client.inboxId and the senders; SELF_OTHER_CASE is the agent's own
\* identifier in another letter case
BotInboxId ==
    <<"a", "B">>

SELF_OTHER_CASE ==
    <<"A", "b">>

USER1 ==
    <<"u", "1">>

USER2 ==
    <<"u", "2">>

T_NOBET ==
    <<"n", "o", " ", "b", "e", "t">>

T_HI ==
    <<"h", "i">>

T_AT_BET ==
    <<"@", "S", "Q", "U", "A", "B", "B", "L", "E", " ", "s", "t", "a", "r", "t", " ", "b", "e", "t", " ", "1">>

T_SLASH_BET ==
    <<"/", "S", "Q", "U", "A", "B", "B", "L", "E", " ", "s", "t", "a", "r", "t", " ", "b", "e", "t", " ", "1">>

T_HELP ==
    <<"/", "h", "e", "l", "p">>

F_REPLIED ==
    <<"R", "e", "p", "l", "i", "e", "d", " ", "w", "i", "t", "h", " ", "\"", "n", "o", " ", "b", "e", "t", "\"", " ", "t", "o", " ", "a", "n", " ", "e", "a", "r", "l", "i", "e", "r", " ", "m", "e", "s", "s", "a", "g", "e">>

\* the texts that matter to a revision: its own trigger vocabulary, blank
\* and untriggered texts, a help request
PlainTexts(v) ==
    IF v = "state"
    THEN {<<" ">>, T_NOBET, START_SLASH, T_SLASH_BET, T_HELP}
    ELSE {<<>>, <<" ">>, T_NOBET, START_AT, T_AT_BET, T_HELP}

PlainEnvelopes(v) ==
    {Envelope(USER1, "c1", "text", content, JsUndefined, JsUndefined) :
        content \in {JsStr(t) : t \in PlainTexts(v)} \cup {JsNull}}

ReplyShapes(v) ==
    IF v = "state"
    THEN { [content |-> JsObj(<<Prop(KEY_CONTENT, T_NOBET)>>), fallback |-> JsUndefined,
            parameters |-> JsUndefined] }
    ELSE { [content |-> JsObj(<<Prop(KEY_CONTENT, T_NOBET)>>), fallback |-> JsUndefined,
            parameters |-> JsUndefined],
           [content |-> JsObj(<<Prop(KEY_CONTENT, <<" ">>)>>), fallback |-> JsUndefined,
            parameters |-> JsUndefined],
           [content |-> JsObj(<<Prop(KEY_CONTENT, <<>>)>>), fallback |-> JsUndefined,
            parameters |-> JsUndefined],
           [content |-> JsObj(<<Prop(KEY_TEXT, T_HI)>>), fallback |-> JsUndefined,
            parameters |-> JsUndefined],
           [content |-> JsUndefined, fallback |-> JsUndefined,
            parameters |-> JsUndefined],
           [content |-> JsNull, fallback |-> JsUndefined, parameters |-> JsUndefined],
           [content |-> JsUndefined, fallback |-> JsStr(F_REPLIED),
            parameters |-> JsUndefined],
           [content |-> JsStr(T_HI), fallback |-> JsUndefined,
            parameters |-> JsUndefined],
           [content |-> JsObj(<<>>), fallback |-> JsUndefined,
            parameters |-> JsObj(<<Prop(KEY_CONTENT, T_NOBET)>>)] }

\* the texts of the replies to a user's message (the other replies are
\* replies to the agent's messages)
RepliesToUser(v) ==
    IF v = "state" THEN {} ELSE {T_NOBET, <<" ">>}

ReplyEnvelopes(v) ==
    {ReplyTo(Envelope(USER1, "c1", "reply", r.content, r.fallback, r.parameters),
             "agent") :
        r \in ReplyShapes(v)}
    \cup {ReplyTo(Envelope(USER1, "c1", "reply", JsObj(<<Prop(KEY_CONTENT, t)>>),
                           JsUndefined, JsUndefined),
                  "user") :
            t \in RepliesToUser(v)}

\* the agent's own messages (in both letter cases), a second user, and a
\* second conversation
OtherEnvelopes(v) ==
    LET start == IF v = "state" THEN START_SLASH ELSE START_AT
    IN  {Envelope(sender, "c1", "text", JsStr(t), JsUndefined, JsUndefined) :
            sender \in {BotInboxId, SELF_OTHER_CASE}, t \in {start}}
        \cup {Envelope(USER2, c, "text", JsStr(T_NOBET), JsUndefined, JsUndefined) :
            c \in Convs}

Envelopes(v) ==
    PlainEnvelopes(v) \cup ReplyEnvelopes(v) \cup OtherEnvelopes(v)

NoMessage ==
    Envelope(<<>>, "none", "none", JsUndefined, JsUndefined, JsUndefined)

RAW_OK ==
    <<"o", "k", "\n">>

RAW_TOOL ==
    <<"T", "O", "O", "L", "_", "H", "A", "N", "D", "L", "E", "D", "\n">>

RAW_RESET ==
    <<"R", "E", "S", "E", "T", "_", "C", "O", "N", "V", "E", "R", "S", "A", "T", "I", "O", "N", "_", "S", "T", "A", "T", "E", "\n">>

\* what initializeAgent and processMessage's agent stream can do: raise (s is
\* the error's message) or yield the agent's chunks (s is their concatenation)
AgentOutcomes ==
    {[k |-> "initThrows", s |-> ERR_EXTERNAL], [k |-> "streamThrows", s |-> ERR_EXTERNAL]}
    \cup {[k |-> "chunks", s |-> raw] : raw \in {<<>>, RAW_OK, RAW_TOOL, RAW_RESET}}

\* clock steps in milliseconds: the timeout that matters to the revision
TickSteps(v) ==
    CASE v = "state" -> {1, STATE_TIMEOUT}
      [] v = "context" -> {1, CONTEXT_WINDOW_MS}
      [] OTHER -> {1}

Instants(v) ==
    {a + b * SetMax(TickSteps(v)) : a \in 0..MaxTicks, b \in 0..MaxTicks}

\* bound on the conversation stream callbacks in progress at one time
MaxWelcomes ==
    1

\* what the conversation stream hands to its callback: an error, no
\* conversation, a direct-message conversation, a group
StreamEvents ==
    {"error", "absent", "Dm", "Group"}

\* welcome: event is the callback's argument while the callback is due
\* ("none" otherwise), delay counts the callbacks waiting in setTimeout,
\* send the welcome sends in flight
NoWelcome ==
    [event |-> "none", delay |-> 0, send |-> 0]

\* the senders that reach initializeAgent (its userId)
Users ==
    {USER1, USER2}

\* memoryStore[userId]: no entry, or a MemorySaver holding the turns the
\* agent checkpointed under thread_id = userId
NoMemory ==
    [saver |-> "none", turns |-> 0]

\* new MemorySaver()
NewMemorySaver ==
    [saver |-> "MemorySaver", turns |-> 0]

\* initializeAgent's assignment to memoryStore: a new MemorySaver on every
\* call, whatever was stored for the user
initializeAgent(store, userId) ==
    [store EXCEPT ![userId] = NewMemorySaver]

\* agent.stream with checkpointSaver = memoryStore[userId]: the turn is
\* checkpointed
checkpoint(store, userId) ==
    [store EXCEPT ![userId].turns = @ + 1]

\* bound on the untriggered messages counted in a row
MaxFollowUps ==
    5

\* followUps[c]: since the last admitted message with a trigger keyword, how
\* many admitted messages without one the agent answered, and whether one of
\* them ended in a failing initializeAgent
NoFollowUps ==
    [answered |-> 0, failed |-> FALSE]

\* bound on the requests to the API server in progress at one time
MaxRequests ==
    2

Slots ==
    1..MaxRequests

\* the secret validateEnvironment hands to api.ts: startup fails without one
RECEIVE_AGENT_SECRET ==
    JsStr(<<"s", "3">>)

WRONG_SECRET ==
    JsStr(<<"s", "4">>)

\* a request: the x-agent-secret header and the two fields of the body
Request(agentSecret, conversationId, text) ==
    [agentSecret |-> agentSecret, conversationId |-> conversationId,
     message |-> text]

Requests ==
    {Request(agentSecret, conversationId, text) :
        agentSecret \in {JsUndefined, WRONG_SECRET, RECEIVE_AGENT_SECRET},
        conversationId \in {JsUndefined, JsStr(<<>>), JsStr(IdText("c1"))},
        text \in {JsUndefined, JsStr(<<>>), JsStr(T_HI)}}

NoRequest ==
    [phase |-> "none", req |-> Request(JsUndefined, JsUndefined, JsUndefined),
     lookup |-> "none", send |-> "none", status |-> 0,
     body |-> Request(JsUndefined, JsUndefined, JsUndefined)]

\* the handler up to its first await with the body validated before the
\* secret
checkRequest_BodyFirst(req, expectedSecret) ==
    IF ~Truthy(expectedSecret) THEN 500
    ELSE IF ~Truthy(req.conversationId) \/ ~Truthy(req.message) THEN 400
    ELSE IF ~Truthy(req.agentSecret) \/ req.agentSecret # expectedSecret THEN 401
    ELSE 0

\* POST /api/send-message up to its first await: the status it answers
\* with, 0 when it goes on to the conversation lookup
checkRequest(req, expectedSecret) ==
    IF ~Truthy(expectedSecret) THEN 500
    ELSE IF ~Truthy(req.agentSecret) \/ req.agentSecret # expectedSecret THEN 401
    ELSE IF ~Truthy(req.conversationId) \/ ~Truthy(req.message) THEN 400
    ELSE 0

(***************************************************************************)
(* State                                                                   *)
(***************************************************************************)
VARIABLES
    variant,              \* which revision of index.ts runs
    now,                  \* Date.now()
    conversationStates,   \* "state": conversation id -> ConversationState
    recentAgentMessages,  \* "context": conversation id -> last tracked send
    pc,                   \* where the dispatch loop / handleMessage stands
    message,              \* the envelope being handled
    conversation,         \* handleMessage's `conversation` (null until found)
    agentInput,           \* the text passed to processMessage
    out,                  \* the text conversation.send is awaited with
    welcome,              \* the conversation stream callback and its sends
    memoryStore,          \* user id -> the MemorySaver stored for that user
    api,                  \* the requests to POST /api/send-message in progress
    followUps             \* history: untriggered messages admitted in a row

vars ==
    <<variant, now, conversationStates, recentAgentMessages, pc, message,
      conversation, agentInput, out, welcome, memoryStore, api, followUps>>

stores ==
    <<conversationStates, recentAgentMessages>>

\* what handleMessage's steps leave alone: the conversation stream, the API
\* server, and (followed in SpecMemory and SpecTurns only) the agent memory
\* and the history of admitted follow-ups
aside ==
    <<welcome, memoryStore, api, followUps>>

Init ==
    /\ variant \in Variants
    /\ now = 0
    /\ conversationStates = [c \in Convs |-> NoState]
    /\ recentAgentMessages = [c \in Convs |-> NoRecent]
    /\ pc = "idle"
    /\ message = NoMessage
    /\ conversation = NoConversation
    /\ agentInput = NoText
    /\ out = NoSend
    /\ welcome = NoWelcome
    /\ memoryStore = [userId \in Users |-> NoMemory]
    /\ api = [slot \in Slots |-> NoRequest]
    /\ followUps = [c \in Convs |-> NoFollowUps]

\* handleMessage returns: the loop waits for the next message
Return ==
    /\ pc' = "idle"
    /\ message' = NoMessage
    /\ conversation' = NoConversation
    /\ agentInput' = NoText
    /\ out' = NoSend

\* an exception reaches the catch block of handleMessage
Catch(error) ==
    LET sent == catchBlock(conversation, error)
    IN  IF sent = NoSend
        THEN Return
        ELSE /\ pc' = "apology"
             /\ out' = sent
             /\ UNCHANGED <<message, conversation, agentInput>>

\* the clock advances (between messages and while a call is awaited)
Tick(d) ==
    /\ now + d \in Instants(variant)
    /\ \E a \in 0..MaxTicks, b \in 0..MaxTicks :
          /\ now + d = a + b * SetMax(TickSteps(variant))
          /\ a + b <= MaxTicks
    /\ now' = now + d
    /\ UNCHANGED <<variant, conversationStates, recentAgentMessages, pc, message,
                   conversation, agentInput, out, aside>>

\* the loop calling handleMessage without awaiting the one in progress
Deliver_NoAwait(m) ==
    /\ pc # "crashed"
    /\ pc' = "handle"
    /\ message' = m
    /\ UNCHANGED <<variant, now, stores, conversation, agentInput, out, aside>>

\* startMessageListener: the stream yields m and handleMessage is called
Deliver(m) ==
    /\ pc = "idle"
    /\ pc' = "handle"
    /\ message' = m
    /\ UNCHANGED <<variant, now, stores, conversation, agentInput, out, aside>>

\* the self-message check comparing the sender as received
isSelf_CaseSensitive(m) ==
    m.senderInboxId = toLowerCase(BotInboxId)

\* handleMessage up to the conversation lookup: the self-message check
isSelf(m) ==
    toLowerCase(m.senderInboxId) = toLowerCase(BotInboxId)

HandleStart ==
    /\ pc = "handle"
    /\ IF isSelf(message)
       THEN Return
       ELSE /\ pc' = "lookup"
            /\ UNCHANGED <<message, conversation, agentInput, out>>
    /\ UNCHANGED <<variant, now, stores, aside>>

\* getConversationById settles: a handle, null (handleMessage throws) or an
\* exception; without a handle the catch block sends nothing
LookupDone(r) ==
    /\ pc = "lookup"
    /\ IF r # "found"
       THEN Catch(IF r = "null" THEN ERR_NOT_FOUND(message.conversationId)
                  ELSE ERR_EXTERNAL)
       ELSE /\ pc' = "evaluate"
            /\ conversation' = message.conversationId
            /\ UNCHANGED <<message, agentInput, out>>
    /\ UNCHANGED <<variant, now, stores, aside>>

\* handleMessage from the resolved conversation to its next await
EvaluateSettles ==
    /\ pc = "evaluate"
    /\ LET o == CASE variant = "reply" -> handleMessageReply(message)
                  [] variant = "state" ->
                       handleMessageState(message, conversationStates, now).o
                  [] OTHER ->
                       handleMessageContext(message, recentAgentMessages, now)
       IN  /\ conversationStates' =
                 IF variant = "state"
                 THEN handleMessageState(message, conversationStates, now).states
                 ELSE conversationStates
           /\ UNCHANGED recentAgentMessages
           /\ IF o.next = "idle"
              THEN Return
              ELSE IF o.next = "apology"
              THEN Catch(ERR_EXTERNAL)
              ELSE /\ pc' = o.next
                   /\ out' = o.out
                   /\ agentInput' = o.agentInput
                   /\ UNCHANGED <<message, conversation>>
    /\ UNCHANGED <<variant, now, welcome, memoryStore, api>>

Evaluate ==
    EvaluateSettles /\ UNCHANGED followUps

\* the same step with the history kept: a message admitted with a trigger
\* keyword starts a new row
EvaluateCounted ==
    /\ EvaluateSettles
    /\ LET c == message.conversationId
           triggered == hasTrigger(variant, toLowerCase(String(message.content)))
       IN  followUps' =
              IF triggered /\ (pc' = "agent" \/ (pc' = "send" /\ out' = BET_PROMPT))
              THEN [followUps EXCEPT ![c] = NoFollowUps]
              ELSE followUps

\* initializeAgent and processMessage settling with the state written after
\* the send, so that the step to the send writes nothing
AgentSettles_WritesAfterSend(outcome) ==
    /\ pc = "agent"
    /\ LET response == processMessage(variant, outcome)
           messageContent == agentInput
       IN  IF outcome.k = "initThrows"
           THEN Catch(outcome.s) /\ UNCHANGED stores
           ELSE IF \/ variant = "context" /\ trim(response) = TOOL_HANDLED
                   \/ /\ variant = "reply"
                      /\ response = <<>>
                      /\ includes(toLowerCase(messageContent), START)
           THEN Return /\ UNCHANGED stores
           ELSE /\ pc' = "send"
                /\ out' = Response(response)
                /\ UNCHANGED <<stores, message, conversation, agentInput>>
    /\ UNCHANGED <<variant, now, welcome, api>>

\* initializeAgent and processMessage settle
AgentSettles(outcome) ==
    /\ pc = "agent"
    /\ LET response == processMessage(variant, outcome)
           messageContent == agentInput
       IN  IF outcome.k = "initThrows"
           THEN Catch(outcome.s) /\ UNCHANGED stores
           ELSE IF \/ variant = "context" /\ trim(response) = TOOL_HANDLED
                   \/ /\ variant = "reply"
                      /\ response = <<>>
                      /\ includes(toLowerCase(messageContent), START)
           THEN Return /\ UNCHANGED stores
           ELSE /\ pc' = "send"
                /\ out' = Response(response)
                /\ conversationStates' =
                      IF variant = "state"
                      THEN setConversationState(conversationStates, conversation,
                                                TRUE, messageContent, now)
                      ELSE conversationStates
                /\ UNCHANGED <<recentAgentMessages, message, conversation, agentInput>>
    /\ UNCHANGED <<variant, now, welcome, api>>

AgentDone(outcome) ==
    AgentSettles(outcome) /\ UNCHANGED <<memoryStore, followUps>>

\* the same step with the agent memory followed: initializeAgent stores a new
\* MemorySaver for the sender, unless it raised before that line, and the
\* agent's run checkpoints the turn, unless the stream raised before that
AgentRun(outcome, reached) ==
    /\ AgentSettles(outcome)
    /\ LET userId == message.senderInboxId
           initialized == initializeAgent(memoryStore, userId)
       IN  memoryStore' =
              CASE outcome.k = "initThrows" ->
                      IF reached THEN initialized ELSE memoryStore
                [] outcome.k = "streamThrows" ->
                      IF reached THEN checkpoint(initialized, userId) ELSE initialized
                [] OTHER -> checkpoint(initialized, userId)
    /\ UNCHANGED followUps

\* the same step with the history kept: an admitted message without a
\* trigger keyword adds to the row, as answered or as failed
AgentCounted(outcome) ==
    /\ AgentSettles(outcome)
    /\ LET c == message.conversationId
           triggered == hasTrigger(variant, toLowerCase(String(message.content)))
       IN  followUps' =
              IF triggered THEN followUps
              ELSE IF outcome.k = "initThrows"
              THEN [followUps EXCEPT ![c].failed = TRUE]
              ELSE [followUps EXCEPT ![c].answered = IF @ < MaxFollowUps THEN @ + 1 ELSE @]
    /\ UNCHANGED memoryStore

\* conversation.send(out) settles
SendDone(ok, messageId) ==
    /\ pc = "send"
    /\ IF ok
       THEN /\ Return
            /\ recentAgentMessages' =
                  IF variant = "context" /\ out.kind = "response"
                  THEN trackAgentMessage(recentAgentMessages, conversation, messageId, now)
                  ELSE recentAgentMessages
            /\ UNCHANGED conversationStates
       ELSE Catch(ERR_EXTERNAL) /\ UNCHANGED stores
    /\ UNCHANGED <<variant, now, aside>>

\* the catch block: the apology is sent when the conversation was resolved;
\* when that send raises too, handleMessage rejects and the loop ends
ApologyDone(ok) ==
    /\ pc = "apology"
    /\ IF ok
       THEN Return
       ELSE /\ pc' = "crashed"
            /\ UNCHANGED <<message, conversation, agentInput, out>>
    /\ UNCHANGED <<variant, now, stores, aside>>

(***************************************************************************)
(* startMessageListener's conversation stream: the callback and the        *)
(* welcome message it sends to a new group.  The callback runs whenever     *)
(* the event loop is free, also while handleMessage is awaiting a call.    *)
(***************************************************************************)
handler ==
    <<variant, now, stores, pc, message, conversation, agentInput, out,
      memoryStore, api, followUps>>

\* the stream calls the callback with (error, conversation)
StreamEvent(e) ==
    /\ welcome.event = "none"
    /\ e = "Group" => welcome.delay + welcome.send < MaxWelcomes
    /\ welcome' = [welcome EXCEPT !.event = e]
    /\ UNCHANGED handler

\* the callback welcoming a group only while no message is being handled
WatcherCallback_SkipsWhenBusy ==
    /\ welcome.event # "none"
    /\ welcome' =
          IF welcome.event = "Group" /\ pc = "idle"
          THEN IF variant = "state"
               THEN [welcome EXCEPT !.event = "none", !.send = @ + 1]
               ELSE [welcome EXCEPT !.event = "none", !.delay = @ + 1]
          ELSE [welcome EXCEPT !.event = "none"]
    /\ UNCHANGED handler

\* the callback: an error is logged, no conversation and a conversation
\* that is no Group end it; for a Group the welcome is sent, at once in the
\* "state" revision and after the 6 s timer in the others
WatcherCallback ==
    /\ welcome.event # "none"
    /\ welcome' =
          IF welcome.event = "Group"
          THEN IF variant = "state"
               THEN [welcome EXCEPT !.event = "none", !.send = @ + 1]
               ELSE [welcome EXCEPT !.event = "none", !.delay = @ + 1]
          ELSE [welcome EXCEPT !.event = "none"]
    /\ UNCHANGED handler

\* the 6 s timer fires and conversation.send(welcome) is called, not awaited
WelcomeTimer ==
    /\ welcome.delay > 0
    /\ welcome' = [welcome EXCEPT !.delay = @ - 1, !.send = @ + 1]
    /\ UNCHANGED handler

\* the welcome send settling with no .catch on it: a rejection is unhandled
\* and ends the process
WelcomeSettled_NoCatch(ok) ==
    /\ welcome.send > 0
    /\ welcome' = [welcome EXCEPT !.send = @ - 1]
    /\ pc' = IF ok THEN pc ELSE "crashed"
    /\ UNCHANGED <<variant, now, stores, message, conversation, agentInput, out,
                   memoryStore, api, followUps>>

\* the welcome send settles: .then logs the success, .catch logs the failure
WelcomeSettled(ok) ==
    /\ welcome.send > 0
    /\ welcome' = [welcome EXCEPT !.send = @ - 1]
    /\ UNCHANGED handler

(***************************************************************************)
(* api.ts: POST /api/send-message.  Each request runs its handler, which   *)
(* awaits the conversation lookup and the send; requests overlap.          *)
(***************************************************************************)
others ==
    <<variant, now, stores, pc, message, conversation, agentInput, out,
      welcome, memoryStore, followUps>>

\* a request arrives and the handler runs to its first await
ApiRequest(slot, req) ==
    /\ variant # "state"
    /\ api[slot].phase = "none"
    /\ LET status == checkRequest(req, RECEIVE_AGENT_SECRET)
       IN  api' = [api EXCEPT ![slot] =
                      IF status # 0
                      THEN [NoRequest EXCEPT !.phase = "done", !.req = req,
                                             !.status = status]
                      ELSE [NoRequest EXCEPT !.phase = "lookup", !.req = req]]
    /\ UNCHANGED others

\* getConversationById settles: a conversation (conversation.send is called),
\* nothing (404), or an exception (the catch block's 500)
ApiLookupDone(slot, r) ==
    /\ api[slot].phase = "lookup"
    /\ api' = [api EXCEPT ![slot] =
                  CASE r = "found" -> [@ EXCEPT !.phase = "send", !.lookup = r]
                    [] r = "null" -> [@ EXCEPT !.phase = "done", !.lookup = r,
                                               !.status = 404]
                    [] OTHER -> [@ EXCEPT !.phase = "done", !.lookup = r,
                                          !.status = 500]]
    /\ UNCHANGED others

\* conversation.send(message) settles: 200 echoing the request, or the catch
\* block's 500
ApiSendDone(slot, ok) ==
    /\ api[slot].phase = "send"
    /\ api' = [api EXCEPT ![slot] =
                  IF ok
                  THEN [@ EXCEPT !.phase = "done", !.send = "ok", !.status = 200,
                                 !.body = Request(JsUndefined,
                                                  api[slot].req.conversationId,
                                                  api[slot].req.message)]
                  ELSE [@ EXCEPT !.phase = "done", !.send = "throws",
                                 !.status = 500]]
    /\ UNCHANGED others

\* the response has gone out
ApiClose(slot) ==
    /\ api[slot].phase = "done"
    /\ api' = [api EXCEPT ![slot] = NoRequest]
    /\ UNCHANGED others

Next ==
    \/ \E d \in TickSteps(variant) : Tick(d)
    \/ \E m \in Envelopes(variant) : Deliver(m)
    \/ HandleStart
    \/ \E r \in {"found", "null", "throws"} : LookupDone(r)
    \/ Evaluate
    \/ \E outcome \in AgentOutcomes : AgentDone(outcome)
    \/ \E ok \in BOOLEAN, messageId \in MessageIds : SendDone(ok, messageId)
    \/ \E ok \in BOOLEAN : ApologyDone(ok)

Spec ==
    Init /\ [][Next]_vars

\* one revision at a time
InitReply ==
    Init /\ variant = "reply"

InitState ==
    Init /\ variant = "state"

InitContext ==
    Init /\ variant = "context"

SpecReply ==
    InitReply /\ [][Next]_vars

SpecState ==
    InitState /\ [][Next]_vars

SpecContext ==
    InitContext /\ [][Next]_vars

\* the dispatch loop together with the conversation stream, at one instant
\* (the callback and the welcome sends read no clock)
NextWatcher ==
    \/ \E m \in Envelopes(variant) : Deliver(m)
    \/ HandleStart
    \/ \E r \in {"found", "null", "throws"} : LookupDone(r)
    \/ Evaluate
    \/ \E outcome \in AgentOutcomes : AgentDone(outcome)
    \/ \E ok \in BOOLEAN, messageId \in MessageIds : SendDone(ok, messageId)
    \/ \E ok \in BOOLEAN : ApologyDone(ok)
    \/ \E e \in StreamEvents : StreamEvent(e)
    \/ WatcherCallback
    \/ WelcomeTimer
    \/ \E ok \in BOOLEAN : WelcomeSettled(ok)

SpecWatcher ==
    Init /\ [][NextWatcher]_vars

\* the dispatch loop with the agent memory followed, at one instant
NextMemory ==
    \/ \E m \in Envelopes(variant) : Deliver(m)
    \/ HandleStart
    \/ \E r \in {"found", "null", "throws"} : LookupDone(r)
    \/ Evaluate
    \/ \E outcome \in AgentOutcomes, reached \in BOOLEAN : AgentRun(outcome, reached)
    \/ \E ok \in BOOLEAN, messageId \in MessageIds : SendDone(ok, messageId)
    \/ \E ok \in BOOLEAN : ApologyDone(ok)

SpecMemory ==
    Init /\ [][NextMemory]_vars

\* the "state" revision with the history of admitted follow-ups kept; the
\* clock stands still (messages arrive as quickly as they can) or passes the
\* session timeout
NextTurns ==
    \/ Tick(STATE_TIMEOUT + 1)
    \/ \E m \in Envelopes(variant) : Deliver(m)
    \/ HandleStart
    \/ \E r \in {"found", "null", "throws"} : LookupDone(r)
    \/ EvaluateCounted
    \/ \E outcome \in AgentOutcomes : AgentCounted(outcome)
    \/ \E ok \in BOOLEAN, messageId \in MessageIds : SendDone(ok, messageId)
    \/ \E ok \in BOOLEAN : ApologyDone(ok)

SpecTurns ==
    InitState /\ [][NextTurns]_vars

\* the API server of the revisions that start one
NextApi ==
    \/ \E slot \in Slots, req \in Requests : ApiRequest(slot, req)
    \/ \E slot \in Slots, r \in {"found", "null", "throws"} : ApiLookupDone(slot, r)
    \/ \E slot \in Slots, ok \in BOOLEAN : ApiSendDone(slot, ok)
    \/ \E slot \in Slots : ApiClose(slot)

SpecApi ==
    Init /\ [][NextApi]_vars

\* every external call handleMessage awaits settles (it resolves or it
\* rejects), and the synchronous steps between two awaits are taken; the
\* stream need not deliver another message
HandlerStep ==
    \/ HandleStart
    \/ \E r \in {"found", "null", "throws"} : LookupDone(r)
    \/ Evaluate
    \/ \E outcome \in AgentOutcomes : AgentDone(outcome)
    \/ \E ok \in BOOLEAN, messageId \in MessageIds : SendDone(ok, messageId)
    \/ \E ok \in BOOLEAN : ApologyDone(ok)

Settles ==
    WF_vars(HandlerStep)

SpecContextFair ==
    InitContext /\ [][Next]_vars /\ Settles

(***************************************************************************)
(* Properties                                                              *)
(***************************************************************************)
ReplyInputs ==
    {m \in Envelopes(variant) : m.typeId = "reply"}

\* the extracted text is empty or whitespace-only
Blank(text) ==
    trim(text) = <<>>

\* C1 as stated: every reply-type message is admitted by
\* shouldRespondToMessage, an empty or whitespace-only one included, whether
\* or not the agent sent into the conversation within the context window.
C1_ReplyAlwaysAdmitted ==
    /\ variant = "context" =>
          \A m \in ReplyInputs :
             shouldRespondToMessageContext(m, recentAgentMessages, now).respond
    /\ variant = "reply" =>
          \A m \in ReplyInputs : shouldRespondToMessageReply(m).respond

\* C1 amended: a reply whose extracted text is not blank is admitted whatever
\* the context window says; a reply whose extracted text is empty or
\* whitespace-only is admitted by the "context" revision exactly when the
\* agent's tracked send into that conversation is at most CONTEXT_WINDOW_MS
\* old; the "reply" revision admits every reply whose extraction is a string.
C1_ReplyAdmittedUnlessBlank ==
    /\ variant = "context" =>
          \A m \in ReplyInputs :
             LET text == extractMessageContentContext(m).s
                 recentMessage == recentAgentMessages[m.conversationId]
                 inWindow == /\ recentMessage # NoRecent
                             /\ now - recentMessage.timestamp <= CONTEXT_WINDOW_MS
                 verdict == shouldRespondToMessageContext(m, recentAgentMessages, now)
             IN  /\ ~verdict.throws
                 /\ verdict.respond = (~Blank(text) \/ inWindow)
    /\ variant = "reply" =>
          \A m \in ReplyInputs :
             extractMessageContentReply(m).k = "str" =>
                /\ ~shouldRespondToMessageReply(m).throws
                /\ shouldRespondToMessageReply(m).respond

\* C1 witness: a reply with blank extracted text was admitted through the
\* context window and is with the agent
C1_Witness ==
    /\ variant = "context"
    /\ pc = "agent"
    /\ message.typeId = "reply"
    /\ Blank(extractMessageContentContext(message).s)

\* the stored state of conversation c is older than STATE_TIMEOUT
TimedOut(c) ==
    /\ conversationStates[c] # NoState
    /\ now - conversationStates[c].lastUpdate > STATE_TIMEOUT

\* the stored state of conversation c has reached the turn ceiling
AtCeiling(c) ==
    /\ conversationStates[c] # NoState
    /\ conversationStates[c].messageCount >= MAX_CONTEXT_MESSAGES

\* what a state read returns after a reset, whatever the time of the read
IsFresh(state) ==
    /\ state.isWaitingForResponse = FALSE
    /\ state.messageCount = 0
    /\ state.lastCommand = <<>>

\* C2: whatever a conversation's stored state holds, once more than
\* STATE_TIMEOUT has passed since its lastUpdate the next getConversationState
\* returns isWaitingForResponse=false, messageCount=0, lastCommand="" and
\* leaves that record in the store.
C2_TimeoutResets ==
    variant = "state" =>
       \A c \in Convs :
          TimedOut(c) =>
             LET got == getConversationState(conversationStates, c, now)
             IN  /\ IsFresh(got.state)
                 /\ got.states[c] = got.state
                 /\ \A other \in Convs \ {c} :
                       got.states[other] = conversationStates[other]

\* C2 witness: handleMessage is about to read a state that is awaiting, has
\* counted turns, holds a command and is older than STATE_TIMEOUT
C2_Witness ==
    /\ variant = "state"
    /\ pc = "evaluate"
    /\ TimedOut(message.conversationId)
    /\ conversationStates[message.conversationId].isWaitingForResponse
    /\ conversationStates[message.conversationId].messageCount > 0
    /\ conversationStates[message.conversationId].lastCommand # <<>>

\* C3: messageCount counts the setConversationState / updateConversationState
\* calls since the record was created or reset, so after MAX_CONTEXT_MESSAGES
\* of them with no timeout the stored count is at the ceiling; the next
\* getConversationState then returns the fresh state and stores it.
C3_CeilingResets ==
    variant = "state" =>
       \A c \in Convs :
          (AtCeiling(c) /\ ~TimedOut(c)) =>
             LET got == getConversationState(conversationStates, c, now)
             IN  /\ IsFresh(got.state)
                 /\ got.states[c] = got.state

\* C3 witness: handleMessage is about to read an awaiting state that counts
\* exactly MAX_CONTEXT_MESSAGES turns and is not timed out
C3_Witness ==
    /\ variant = "state"
    /\ pc = "evaluate"
    /\ conversationStates[message.conversationId] # NoState
    /\ conversationStates[message.conversationId].messageCount = MAX_CONTEXT_MESSAGES
    /\ conversationStates[message.conversationId].isWaitingForResponse
    /\ ~TimedOut(message.conversationId)

\* C10: two getConversationState calls for one conversation at one instant,
\* with no setter in between, return the same field values, whether the
\* stored state was absent, timed out, at the turn ceiling or live.
C10_GetStateIdempotent ==
    variant = "state" =>
       \A c \in Convs :
          LET first == getConversationState(conversationStates, c, now)
              second == getConversationState(first.states, c, now)
          IN  /\ second.state = first.state
              /\ second.states = first.states

\* C10 witness: handleMessage is about to read twice (its own read, then
\* shouldRespondToMessage's) while one conversation's state is at the turn
\* ceiling, another's is timed out
C10_Witness ==
    /\ variant = "state"
    /\ pc = "evaluate"
    /\ \E c \in Convs : AtCeiling(c) /\ ~TimedOut(c)
    /\ \E c \in Convs : TimedOut(c)
    /\ conversationStates[message.conversationId] # NoState
    /\ ~conversationStates[message.conversationId].isWaitingForResponse

\* the Evaluate step: handleMessage runs from the resolved conversation to
\* its next await or its return
EvaluateStep ==
    pc = "evaluate" /\ pc' # "evaluate"

\* the stored state of conversation c is awaiting a follow-up and a state
\* read keeps it: it is neither timed out nor at the turn ceiling
Awaiting(c) ==
    /\ conversationStates[c] # NoState
    /\ conversationStates[c].isWaitingForResponse
    /\ now - conversationStates[c].lastUpdate <= STATE_TIMEOUT
    /\ conversationStates[c].messageCount < MAX_CONTEXT_MESSAGES

\* the text of the message being handled carries a trigger keyword
CarriesTrigger ==
    hasTrigger("state", toLowerCase(String(message.content)))

\* C4: in the awaiting state a message from any sender other than the agent
\* that carries no trigger keyword is admitted, and the text handed to the
\* agent is the message text, character for character.
C4_AwaitingForwardsUnchanged ==
    [][ ( /\ variant = "state"
          /\ EvaluateStep
          /\ Awaiting(message.conversationId)
          /\ ~CarriesTrigger )
        => ( /\ pc' = "agent"
             /\ agentInput' = String(message.content)
             /\ message' = message
             /\ conversationStates' = conversationStates ) ]_vars

\* C4 witness: a follow-up from a second user, whose trimmed lower-case form
\* would differ from the text sent, is with the agent while the state awaits
C4_Witness ==
    /\ variant = "state"
    /\ pc = "agent"
    /\ message.senderInboxId = USER2
    /\ agentInput = T_NOBET
    /\ Awaiting(message.conversationId)

\* C4 witness for a text that normalisation would change
C4_WitnessBlank ==
    /\ variant = "state"
    /\ pc = "agent"
    /\ agentInput = <<" ">>
    /\ conversationStates[message.conversationId] # NoState
    /\ conversationStates[message.conversationId].isWaitingForResponse

\* C5: in the awaiting state a message that carries a trigger keyword has the
\* awaiting flag cleared before shouldRespondToMessage reads the state, and
\* handleMessage then takes the step (bet prompt, agent call, or return) it
\* takes for the same message on a conversation with no state at all.
C5_NewTriggerAsOnFreshState ==
    [][ ( /\ variant = "state"
          /\ EvaluateStep
          /\ Awaiting(message.conversationId)
          /\ CarriesTrigger )
        => LET id == message.conversationId
               here == handleMessageState(message, conversationStates, now)
               fresh == handleMessageState(
                           message, [conversationStates EXCEPT ![id] = NoState], now)
           IN  /\ here.evaluated # NoState
               /\ here.evaluated.isWaitingForResponse = FALSE
               /\ here.o = fresh.o
               /\ pc' = fresh.o.next
               /\ out' = fresh.o.out
               /\ agentInput' = fresh.o.agentInput ]_vars

\* C5 witness: a start command that arrived in the awaiting state, after
\* earlier turns, got the bet prompt
C5_Witness ==
    /\ variant = "state"
    /\ pc = "send"
    /\ out = BET_PROMPT
    /\ conversationStates[message.conversationId].messageCount >= 3

\* C5 witness for the agent path: a start command with a bet, arriving in
\* the awaiting state, is with the agent and the flag is cleared
C5_WitnessAgent ==
    /\ variant = "state"
    /\ pc = "agent"
    /\ agentInput = T_SLASH_BET
    /\ conversationStates[message.conversationId].messageCount >= 2
    /\ ~conversationStates[message.conversationId].isWaitingForResponse

\* the message being handled is a start command of the "state" revision
StartCommand ==
    includes(toLowerCase(String(message.content)), START_SLASH)

\* the message being handled names a bet
NamesBet ==
    includes(toLowerCase(String(message.content)), BET)

\* conversation c has no state, or the fresh one a state read creates
EmptyState(c) ==
    \/ conversationStates[c] = NoState
    \/ IsFresh(conversationStates[c])

\* handleMessage returns or rejects
HandlerEnds ==
    /\ pc \in {"evaluate", "agent", "send", "apology"}
    /\ pc' \in {"idle", "crashed"}

\* the follow-up half of scenario A: the state a start command left (awaiting,
\* one turn counted) is at most STATE_TIMEOUT old and the message carries no
\* trigger keyword; it goes to the agent as its own text
FollowUpForwarded ==
    ( /\ variant = "state"
      /\ EvaluateStep
      /\ conversationStates[message.conversationId] # NoState
      /\ conversationStates[message.conversationId].isWaitingForResponse
      /\ conversationStates[message.conversationId].messageCount = 1
      /\ now - conversationStates[message.conversationId].lastUpdate <= STATE_TIMEOUT
      /\ ~CarriesTrigger )
    => ( /\ pc' = "agent"
         /\ agentInput' = String(message.content) )

C6_WitnessBet ==
    /\ variant = "state"
    /\ pc = "send"
    /\ message.content = JsStr(T_SLASH_BET)
    /\ conversationStates[message.conversationId] =
          ConversationState(TRUE, T_SLASH_BET, 1, now)

\* the message being handled is a plain (non-reply) one whose extracted text
\* carries no trigger keyword of the "context" revision
PlainUntriggered ==
    /\ message.typeId # "reply"
    /\ ~hasTrigger("context", trim(toLowerCase(extractMessageContentContext(message).s)))

\* the agent's tracked send into conversation c is at most CONTEXT_WINDOW_MS old
SentWithinWindow(c) ==
    /\ recentAgentMessages[c] # NoRecent
    /\ now - recentAgentMessages[c].timestamp <= CONTEXT_WINDOW_MS

\* the agent's tracked send into conversation c is older than CONTEXT_WINDOW_MS
SentBeforeWindow(c) ==
    /\ recentAgentMessages[c] # NoRecent
    /\ now - recentAgentMessages[c].timestamp > CONTEXT_WINDOW_MS

\* C7 as stated: with the tracked send at most CONTEXT_WINDOW_MS old, every
\* plain message with non-empty text and no trigger keyword is admitted.
C7_WindowAdmitsNonEmpty ==
    [][ ( /\ variant = "context"
          /\ EvaluateStep
          /\ PlainUntriggered
          /\ extractMessageContentContext(message).s # <<>>
          /\ SentWithinWindow(message.conversationId) )
        => ( /\ shouldRespondToMessageContext(message, recentAgentMessages, now).respond
             /\ pc' = "agent" ) ]_vars

\* C7 amended: with the tracked send at most CONTEXT_WINDOW_MS old (the
\* boundary included), every plain message without a trigger keyword whose
\* text is not empty after trimming is admitted and goes to the agent; one
\* whose text is empty or whitespace-only is not admitted.
C7_WindowAdmitsNonBlank ==
    [][ ( /\ variant = "context"
          /\ EvaluateStep
          /\ PlainUntriggered
          /\ SentWithinWindow(message.conversationId) )
        => LET text == extractMessageContentContext(message).s
               verdict == shouldRespondToMessageContext(message, recentAgentMessages, now)
           IN  IF Blank(text)
               THEN ~verdict.respond /\ pc' # "agent"
               ELSE /\ verdict.respond
                    /\ pc' = "agent"
                    /\ agentInput' = text ]_vars

\* C7 witness: "no bet", handled exactly CONTEXT_WINDOW_MS after the tracked
\* send, is with the agent
C7_Witness ==
    /\ variant = "context"
    /\ pc = "agent"
    /\ message.typeId = "text"
    /\ agentInput = T_NOBET
    /\ recentAgentMessages[message.conversationId] # NoRecent
    /\ now - recentAgentMessages[message.conversationId].timestamp = CONTEXT_WINDOW_MS

\* C8: with the tracked send older than CONTEXT_WINDOW_MS, a plain message
\* without a trigger keyword is not admitted: shouldRespondToMessage is
\* false, handleMessage returns or sends the help hint, the agent gets
\* nothing and the tracked send stays as it was.
C8_OutsideWindowNotAdmitted ==
    [][ ( /\ variant = "context"
          /\ EvaluateStep
          /\ PlainUntriggered
          /\ SentBeforeWindow(message.conversationId) )
        => ( /\ ~shouldRespondToMessageContext(message, recentAgentMessages, now).respond
             /\ pc' \in {"idle", "send"}
             /\ pc' = "send" => out' = HINT
             /\ agentInput' = NoText
             /\ recentAgentMessages' = recentAgentMessages ) ]_vars

\* C8 witness: a help request without a trigger keyword, handled after the
\* window closed, gets the hint instead of the agent
C8_Witness ==
    /\ variant = "context"
    /\ pc = "send"
    /\ out = HINT
    /\ message.typeId = "text"
    /\ SentBeforeWindow(message.conversationId)

\* C8 witness for a text without a bot mention: "no bet" is under evaluation
\* after the window closed
C8_WitnessNoBet ==
    /\ variant = "context"
    /\ pc = "evaluate"
    /\ message.content = JsStr(T_NOBET)
    /\ message.typeId = "text"
    /\ SentBeforeWindow(message.conversationId)

\* C9: a message whose sender equals the agent's identifier, letter case
\* aside, makes handleMessage return at its first check: no conversation is
\* looked up, no conversation state and no tracked send is created or
\* changed, the agent gets nothing and nothing is sent.
C9_SelfMessageIgnored ==
    [][ ( /\ pc = "handle"
          /\ pc' # "handle"
          /\ toLowerCase(message.senderInboxId) = toLowerCase(BotInboxId) )
        => ( /\ pc' = "idle"
             /\ conversationStates' = conversationStates
             /\ recentAgentMessages' = recentAgentMessages
             /\ conversation' = NoConversation
             /\ agentInput' = NoText
             /\ out' = NoSend ) ]_vars

\* C9 witness: the agent's own identifier in another letter case sends a
\* start command into a conversation that already has state or a tracked send
C9_Witness ==
    /\ pc = "handle"
    /\ message.senderInboxId = SELF_OTHER_CASE
    /\ message.senderInboxId # BotInboxId
    /\ \/ conversationStates[message.conversationId] # NoState
       \/ recentAgentMessages[message.conversationId] # NoRecent

\* C11: no error raised while one message is handled (a failed conversation
\* lookup, a failure of the agent, a failed send, the apology send
\* included) ends the dispatch loop: the loop never reaches the point where
\* handleMessage has rejected and `for await` has been left.
C11_LoopSurvivesErrors ==
    pc # "crashed"

\* C11, the errors that do leave the loop running: a failed lookup, a failed
\* agent initialisation and a failed send of a response, hint or bet prompt
\* are caught; the loop is left only from the catch block's own send
C11_OnlyApologySendEndsLoop ==
    [][ pc' = "crashed" => pc \in {"apology", "crashed"} ]_vars

\* C12: when handling a message fails, the one text sent about it is the
\* fixed APOLOGY, whatever the error says: a failed lookup ends the handling
\* with nothing sent and no second lookup; a failure after the lookup (agent
\* initialisation, a send) puts exactly APOLOGY on its way to the resolved
\* conversation, and the apology is the last thing handleMessage does.  A
\* failure inside the agent stream never leaves processMessage: its result
\* is the fixed SORRY text.
C12_OnlyGenericApology ==
    [][ /\ (pc = "lookup" /\ pc' \notin {"lookup", "evaluate"})
           => /\ pc' = "idle"
              /\ out' = NoSend
              /\ conversation' = NoConversation
              /\ stores' = stores
        /\ (pc # "apology" /\ pc' = "apology")
           => /\ out' = Apology(APOLOGY)
              /\ conversation # NoConversation
              /\ conversation' = conversation
        /\ (pc \in {"agent", "send"} /\ pc' \notin {pc, "send", "idle"})
           => pc' = "apology"
        /\ (pc = "apology" /\ pc' # "apology")
           => pc' \in {"idle", "crashed"}
        /\ \A error \in {ERR_EXTERNAL, ERR_NOT_FOUND("c1")} :
              processMessage(variant, [k |-> "streamThrows", s |-> error]) = SORRY
      ]_vars

\* C12 witness: a send into the resolved conversation failed and the apology
\* is on its way
C12_Witness ==
    /\ pc = "apology"
    /\ out = Apology(APOLOGY)
    /\ conversation = "c1"
    /\ message.conversationId = "c1"
    /\ message.content = JsStr(T_HELP)

\* the agent's result is the already-delivered sentinel of the revision:
\* TOOL_HANDLED, alone but for white space, in the "context" revision; a
\* text containing RESET_CONVERSATION_STATE in the "reply" revision
CarriesSentinel(outcome) ==
    /\ outcome.k = "chunks"
    /\ \/ variant = "context" /\ trim(outcome.s) = TOOL_HANDLED
       \/ variant = "reply" /\ includes(outcome.s, RESET_CONVERSATION_STATE)

\* C13: when the agent's result is the already-delivered sentinel,
\* handleMessage returns without sending anything, whatever the text of the
\* inbound message, and the tracked send stays as it was.
C13_SentinelSuppressesSend ==
    [][ \A outcome \in AgentOutcomes :
           (CarriesSentinel(outcome) /\ AgentDone(outcome))
           => ( /\ pc' = "idle"
                /\ out' = NoSend
                /\ recentAgentMessages' = recentAgentMessages ) ]_vars

\* C13 for the "context" revision alone, where it holds: TOOL_HANDLED ends
\* the handling with nothing sent and nothing tracked
C13_ToolHandledSuppressed ==
    [][ \A outcome \in AgentOutcomes :
           (variant = "context" /\ CarriesSentinel(outcome) /\ AgentDone(outcome))
           => ( /\ pc' = "idle"
                /\ out' = NoSend
                /\ recentAgentMessages' = recentAgentMessages ) ]_vars

\* C13 for the "reply" revision: the sentinel suppresses the send exactly
\* when the inbound text contains "start"; otherwise the empty response is
\* handed to conversation.send
C13_ResetSuppressedOnStartOnly ==
    [][ \A outcome \in AgentOutcomes :
           (variant = "reply" /\ CarriesSentinel(outcome) /\ AgentDone(outcome))
           => IF includes(toLowerCase(agentInput), START)
              THEN pc' = "idle" /\ out' = NoSend
              ELSE pc' = "send" /\ out' = Response(<<>>) ]_vars

\* a send awaited by handleMessage (a response, the help hint, the apology)
\* has succeeded
SendCompletes ==
    /\ pc \in {"send", "apology"}
    /\ pc' = "idle"

\* C14: every send the agent makes into a conversation sets the
\* conversation's tracked send to the present instant: after a completed
\* send of a response, of the help hint or of the apology,
\* recentAgentMessages[conversation] carries the timestamp now.
C14_EverySendTracked ==
    [][ (variant = "context" /\ SendCompletes)
        => ( /\ recentAgentMessages'[conversation] # NoRecent
             /\ recentAgentMessages'[conversation].timestamp = now ) ]_vars

\* C14, what the "context" revision does: a completed send of an agent
\* response is tracked; a completed help hint or apology leaves the tracked
\* send as it was
C14_OnlyResponsesTracked ==
    [][ (variant = "context" /\ SendCompletes)
        => IF pc = "send" /\ out.kind = "response"
           THEN \E messageId \in MessageIds :
                   recentAgentMessages' =
                      [recentAgentMessages EXCEPT
                          ![conversation] = [timestamp |-> now, messageId |-> messageId]]
           ELSE recentAgentMessages' = recentAgentMessages ]_vars

\* the record of conversation c right after handleMessage's new-trigger
\* reset: its state read followed by updateConversationState(c, false)
AfterTriggerReset(c) ==
    updateConversationState(
        getConversationState(conversationStates, c, now).states, c, FALSE, now)[c]

\* a state read of a timed-out record, or of one at the turn ceiling,
\* returns messageCount 0
ReadResetsCount ==
    \A c \in Convs :
       (TimedOut(c) \/ AtCeiling(c)) =>
          getConversationState(conversationStates, c, now).state.messageCount = 0

\* C15: messageCount is 0 right after every kind of reset: the reset by
\* timeout and the reset at the turn ceiling (both made by a state read), and
\* the reset handleMessage makes when a trigger keyword arrives in the
\* awaiting state.
C15_CountZeroAfterReset ==
    [][ /\ variant = "state" => ReadResetsCount
        /\ ( /\ variant = "state"
             /\ EvaluateStep
             /\ Awaiting(message.conversationId)
             /\ CarriesTrigger )
           => AfterTriggerReset(message.conversationId).messageCount = 0 ]_vars

\* C15, what the "state" revision does: the two resets made by a state read
\* leave messageCount 0; the new-trigger reset clears the awaiting flag,
\* keeps lastCommand and counts one more turn
C15_TriggerResetCountsATurn ==
    [][ /\ variant = "state" => ReadResetsCount
        /\ ( /\ variant = "state"
             /\ EvaluateStep
             /\ Awaiting(message.conversationId)
             /\ CarriesTrigger )
           => LET id == message.conversationId
              IN  AfterTriggerReset(id) =
                     ConversationState(FALSE, conversationStates[id].lastCommand,
                                       conversationStates[id].messageCount + 1, now) ]_vars

\* C16: the lastUpdate of a conversation's record never decreases: no step
\* of the program lowers it or removes the record, and at every reachable
\* store and instant a state read, setConversationState and
\* updateConversationState each leave a lastUpdate at least as large as the
\* stored one (the clock only moves forward, so the stored one is never in
\* the future).
C16_LastUpdateMonotone ==
    [][ variant = "state" =>
          \A c \in Convs :
             conversationStates[c] # NoState =>
                LET old == conversationStates[c].lastUpdate
                IN  /\ old <= now
                    /\ conversationStates'[c] # NoState
                    /\ conversationStates'[c].lastUpdate >= old
                    /\ getConversationState(conversationStates, c, now).state.lastUpdate >= old
                    /\ getConversationState(conversationStates, c, now).states[c].lastUpdate >= old
                    /\ \A w \in BOOLEAN :
                          /\ updateConversationState(conversationStates, c, w, now)[c].lastUpdate >= old
                          /\ setConversationState(conversationStates, c, w, START_SLASH, now)[c].lastUpdate >= old
      ]_vars

\* C16 witness: a record last written after the clock had advanced is at the
\* turn ceiling and is read (and reset) at a still later instant
C16_Witness ==
    /\ variant = "state"
    /\ pc = "evaluate"
    /\ AtCeiling(message.conversationId)
    /\ conversationStates[message.conversationId].lastUpdate > 0
    /\ now > conversationStates[message.conversationId].lastUpdate

\* C17: whatever is stored, the record a state read returns is not expired
\* at that instant: it is at most STATE_TIMEOUT old and has counted fewer
\* than MAX_CONTEXT_MESSAGES turns; so a returned record that is awaiting is
\* never older than STATE_TIMEOUT.
C17_ReturnedStateNotExpired ==
    variant = "state" =>
       \A c \in Convs :
          LET got == getConversationState(conversationStates, c, now).state
          IN  /\ got # NoState
              /\ now - got.lastUpdate <= STATE_TIMEOUT
              /\ now - got.lastUpdate >= 0
              /\ got.messageCount < MAX_CONTEXT_MESSAGES
              /\ got.isWaitingForResponse =>
                    /\ conversationStates[c] # NoState
                    /\ got = conversationStates[c]
                    /\ now - conversationStates[c].lastUpdate <= STATE_TIMEOUT

\* C17 witness: handleMessage is about to read an awaiting record that is
\* exactly STATE_TIMEOUT old, while another conversation's record is timed out
C17_Witness ==
    /\ variant = "state"
    /\ pc = "evaluate"
    /\ Awaiting(message.conversationId)
    /\ now - conversationStates[message.conversationId].lastUpdate = STATE_TIMEOUT
    /\ conversationStates[message.conversationId].messageCount >= 2

\* the record setConversationState / updateConversationState start from
CurrentState(c) ==
    IF conversationStates[c] = NoState THEN newState(now) ELSE conversationStates[c]

OtherStates ==
    {NoState, ConversationState(TRUE, START_SLASH, 1, now),
     ConversationState(TRUE, T_NOBET, MAX_CONTEXT_MESSAGES, 0)}

OtherRecents ==
    {NoRecent, [timestamp |-> now, messageId |-> "m1"], [timestamp |-> 0, messageId |-> "m1"]}

\* C20: handling a message of one conversation changes no other
\* conversation's state record or tracked send, and what handleMessage
\* decides (return, hint, bet prompt, agent call and its input) and writes to
\* its own conversation's record is the same whatever the other
\* conversations' entries hold.
C20_ConversationsIndependent ==
    [][ /\ \A c \in Convs :
              c # message.conversationId =>
                 /\ conversationStates'[c] = conversationStates[c]
                 /\ recentAgentMessages'[c] = recentAgentMessages[c]
        /\ (variant = "state" /\ EvaluateStep)
           => \A c \in Convs \ {message.conversationId}, r \in OtherStates :
                 LET id == message.conversationId
                     here == handleMessageState(message, conversationStates, now)
                     there == handleMessageState(
                                 message, [conversationStates EXCEPT ![c] = r], now)
                 IN  /\ there.o = here.o
                     /\ there.states[id] = here.states[id]
                     /\ there.states[c] = r
        /\ (variant = "context" /\ EvaluateStep)
           => \A c \in Convs \ {message.conversationId}, r \in OtherRecents :
                 handleMessageContext(message, [recentAgentMessages EXCEPT ![c] = r], now)
                    = handleMessageContext(message, recentAgentMessages, now)
        /\ (variant = "context" /\ pc = "send" /\ pc' = "idle")
           => \A c \in Convs \ {conversation} :
                 recentAgentMessages'[c] = recentAgentMessages[c] ]_vars

\* C20 witness: a message of conversation c2 is under evaluation while
\* conversation c1 is awaiting a follow-up
C20_Witness ==
    /\ variant = "state"
    /\ pc = "evaluate"
    /\ message.conversationId = "c2"
    /\ Awaiting("c1")
    /\ conversationStates["c2"] = NoState

(***************************************************************************)
(* Content extraction on malformed envelopes                               *)
(***************************************************************************)
\* payloads, fallbacks and parameters a decoded message can carry: absent,
\* null, of the wrong type, empty, and with one or several of the fields
\* extractMessageContent looks at
ContentShapes ==
    {JsUndefined, JsNull, JsStr(<<>>), JsStr(T_HI), JsObj(<<>>),
     JsObj(<<Prop(KEY_CONTENT, <<>>)>>),
     JsObj(<<Prop(KEY_CONTENT, T_NOBET)>>),
     JsObj(<<Prop(KEY_TEXT, T_HI)>>),
     JsObj(<<Prop(KEY_MESSAGE, T_HI)>>),
     JsObj(<<Prop(KEY_CONTENT, T_NOBET), Prop(KEY_TEXT, T_HI)>>),
     JsObj(<<Prop(KEY_CONTENT, <<>>), Prop(KEY_MESSAGE, T_HI)>>)}

FallbackShapes ==
    {JsUndefined, JsNull, JsStr(<<>>), JsStr(T_NOBET), JsStr(F_REPLIED), JsObj(<<>>)}

ParameterShapes ==
    {JsUndefined, JsNull, JsStr(T_HI), JsObj(<<>>),
     JsObj(<<Prop(KEY_CONTENT, T_HI)>>), JsObj(<<Prop(KEY_TEXT, T_NOBET)>>)}

ExtractInputs ==
    {Envelope(USER1, "c1", typeId, content, fallback, parameters) :
        typeId \in {"reply", "text"}, content \in ContentShapes,
        fallback \in FallbackShapes, parameters \in ParameterShapes}

\* value[key] is a non-empty text
HasText(value, key) ==
    /\ value.k = "obj"
    /\ \E i \in 1..Len(value.o) : value.o[i].key = key /\ value.o[i].val # <<>>

\* the reply carries text in none of the places extractMessageContent reads
NothingToExtract(m) ==
    /\ m.content.k \in {"null", "undefined"}
    /\ ~(m.fallback.k = "str" /\ m.fallback.s # <<>>)
    /\ ~HasText(m.parameters, KEY_CONTENT)
    /\ ~HasText(m.parameters, KEY_TEXT)

\* C21: extractMessageContent gives a string for every envelope, a reply
\* with null or undefined payload, a payload that is no object, no fallback
\* and no parameters included; a reply with nothing to extract and a plain
\* message without content give the empty string.
C21_ExtractionTotal ==
    variant = "context" =>
       /\ \A m \in ExtractInputs \cup Envelopes("context") :
             LET extracted == extractMessageContentContext(m)
             IN  /\ extracted.k = "str"
                 /\ (m.typeId = "reply" /\ NothingToExtract(m))
                       => extracted.s = <<>>
                 /\ (m.typeId # "reply" /\ m.content.k \in {"null", "undefined"})
                       => extracted.s = <<>>
       /\ pc \in {"evaluate", "agent", "send"}
             => extractMessageContentContext(message).k = "str"

\* C21 witness: a reply with undefined payload, no fallback and no
\* parameters was extracted as the empty string and is with the agent
C21_Witness ==
    /\ variant = "context"
    /\ pc = "agent"
    /\ message.typeId = "reply"
    /\ message.content = JsUndefined
    /\ message.fallback = JsUndefined
    /\ message.parameters = JsUndefined
    /\ agentInput = <<>>

\* a candidate text of the extraction: the text, JsUndefined when the place
\* holds none
TextAt(value, key) ==
    IF HasText(value, key) THEN Field(value, key) ELSE JsUndefined

FallbackCapture(m) ==
    IF m.fallback.k = "str" THEN matchRepliedWith(m.fallback.s) ELSE JsUndefined

RawFallback(m) ==
    IF m.fallback.k = "str" /\ m.fallback.s # <<>> THEN m.fallback ELSE JsUndefined

\* the first candidate that holds a text, `last` when none does
FirstAvailable(candidates, last) ==
    LET held == {i \in 1..Len(candidates) : candidates[i].k = "str"}
    IN  IF held = {} THEN last ELSE candidates[SetMin(held)]

\* the last resort of the extraction: the JSON serialization of the payload,
\* the empty string for a payload that has none (null, undefined)
LastResort(m) ==
    IF m.content.k \in {"null", "undefined"} THEN JsStr(<<>>)
    ELSE JSONstringify(m.content)

\* C22 as stated: a reply's extraction is the first available of
\* content.content, content.text, content.message, the text captured from
\* the fallback, the raw fallback, and last the JSON serialization of the
\* payload, with nothing consulted in between.
C22_SixStepPriority ==
    (variant = "context" /\ pc = "evaluate" /\ message.typeId = "reply") =>
       extractMessageContentContext(message) =
          FirstAvailable(<<TextAt(message.content, KEY_CONTENT),
                           TextAt(message.content, KEY_TEXT),
                           TextAt(message.content, KEY_MESSAGE),
                           FallbackCapture(message),
                           RawFallback(message)>>,
                         LastResort(message))

\* C22 amended: between the raw fallback and the JSON serialization come
\* parameters.content, then parameters.text, and a null or undefined payload
\* gives the empty string in place of a serialization.
C22_ExtractionPriority ==
    variant = "context" =>
       \A m \in ExtractInputs \cup Envelopes("context") :
          m.typeId = "reply" =>
             extractMessageContentContext(m) =
                FirstAvailable(<<TextAt(m.content, KEY_CONTENT),
                                 TextAt(m.content, KEY_TEXT),
                                 TextAt(m.content, KEY_MESSAGE),
                                 FallbackCapture(m),
                                 RawFallback(m),
                                 TextAt(m.parameters, KEY_CONTENT),
                                 TextAt(m.parameters, KEY_TEXT)>>,
                               LastResort(m))

\* C22 witness: a reply whose payload is an empty object and whose fallback
\* is absent was extracted from parameters.content and is with the agent
C22_Witness ==
    /\ variant = "context"
    /\ pc = "agent"
    /\ message.typeId = "reply"
    /\ message.content = JsObj(<<>>)
    /\ message.fallback = JsUndefined
    /\ HasText(message.parameters, KEY_CONTENT)
    /\ agentInput = Field(message.parameters, KEY_CONTENT).s

\* C23: nothing in the trigger evaluation or the state handling raises:
\* whatever the envelope, the step from the resolved conversation to the
\* next external call never enters the catch block, so the error path is
\* entered from an external call (lookup, agent, send) only.
C23_EvaluationNeverRaises ==
    [][ EvaluateStep
        => ( /\ pc' # "apology"
             /\ variant = "reply" => ~shouldRespondToMessageReply(message).throws
             /\ variant = "context" =>
                   ~shouldRespondToMessageContext(message, recentAgentMessages, now).throws
             /\ variant = "state" =>
                   ~shouldRespondToMessageState(String(message.content),
                                               conversationStates,
                                               message.conversationId, now).throws
           ) ]_vars

\* C23 in the "state" and "context" revisions, where it holds: the catch
\* block is entered from the lookup, the agent or a send
C23_LaterRevisionsNeverRaise ==
    [][ (variant # "reply" /\ pc' = "apology" /\ pc # "apology")
        => pc \in {"agent", "send"} ]_vars

\* C24: a message that is no reply and whose extracted text is empty or
\* whitespace-only is never admitted, also when the agent's tracked send
\* into the conversation is inside the context window: handleMessage
\* returns, the agent gets nothing and nothing is sent.
C24_BlankPlainNeverAdmitted ==
    [][ ( /\ variant = "context"
          /\ EvaluateStep
          /\ message.typeId # "reply"
          /\ Blank(extractMessageContentContext(message).s) )
        => ( /\ ~shouldRespondToMessageContext(message, recentAgentMessages, now).respond
             /\ pc' = "idle"
             /\ agentInput' = NoText
             /\ out' = NoSend
             /\ recentAgentMessages' = recentAgentMessages ) ]_vars

\* C24 witness: a whitespace-only plain message is under evaluation while
\* the tracked send into its conversation is inside the context window
C24_Witness ==
    /\ variant = "context"
    /\ pc = "evaluate"
    /\ message.typeId = "text"
    /\ message.content = JsStr(<<" ">>)
    /\ SentWithinWindow(message.conversationId)

\* C24 witness for absent content: a plain message with null content is
\* under evaluation inside the context window
C24_WitnessNull ==
    /\ variant = "context"
    /\ pc = "evaluate"
    /\ message.typeId = "text"
    /\ message.content = JsNull
    /\ SentWithinWindow(message.conversationId)

\* keyword occurs in text at some position, letter case aside
ContainsKeyword(v, text) ==
    \E trigger \in SQUABBLE_TRIGGERS(v) :
       \E i \in 1..Len(text) :
          /\ i + Len(trigger) - 1 <= Len(text)
          /\ \A j \in 1..Len(trigger) :
                LowerChar(text[i + j - 1]) = LowerChar(trigger[j])

\* the text handleMessage works on for the message being handled
HandledText ==
    extractMessageContent(variant, message).s

\* shouldRespondToMessage of the running revision on the message being
\* handled, with the stores as they are
Verdict ==
    CASE variant = "reply" -> shouldRespondToMessageReply(message).respond
      [] variant = "state" ->
            shouldRespondToMessageState(String(message.content), conversationStates,
                                        message.conversationId, now).respond
      [] OTHER ->
            shouldRespondToMessageContext(message, recentAgentMessages, now).respond

\* C25: for a message that is no reply and has non-empty text, in a
\* conversation that is neither awaiting a follow-up nor inside the context
\* window, shouldRespondToMessage is true exactly when the text contains a
\* trigger keyword of the revision at some position, letter case aside; the
\* message then goes on to the agent (or the bet prompt), and otherwise not.
C25_TriggerKeywordDecides ==
    [][ ( /\ EvaluateStep
          /\ message.typeId # "reply"
          /\ HandledText # <<>>
          /\ ~Awaiting(message.conversationId)
          /\ ~SentWithinWindow(message.conversationId) )
        => ( /\ Verdict = ContainsKeyword(variant, HandledText)
             /\ (pc' = "agent" \/ (pc' = "send" /\ out' = BET_PROMPT))
                   = ContainsKeyword(variant, HandledText) ) ]_vars

\* C25 witness: a plain message with the keyword in upper case, in a
\* conversation with no state and no tracked send, is with the agent
C25_Witness ==
    /\ pc = "agent"
    /\ message.typeId = "text"
    /\ message.content \in {JsStr(T_AT_BET), JsStr(T_SLASH_BET)}
    /\ recentAgentMessages[message.conversationId] = NoRecent
    /\ conversationStates[message.conversationId] # NoState
          => conversationStates[message.conversationId].messageCount = 0

\* C25 witness for the other direction: "no bet" is under evaluation in a
\* conversation whose state stopped awaiting and whose tracked send aged out
C25_WitnessNoKeyword ==
    /\ pc = "evaluate"
    /\ message.typeId = "text"
    /\ message.content = JsStr(T_NOBET)
    /\ ~Awaiting(message.conversationId)
    /\ ~SentWithinWindow(message.conversationId)
    /\ \/ conversationStates[message.conversationId] # NoState
       \/ recentAgentMessages[message.conversationId] # NoRecent

\* the text names one of the revision's bot-mention terms, letter case and
\* surrounding white space aside
MentionsBot(v, text) ==
    \E mention \in botMentions(v) : includes(trim(toLowerCase(text)), mention)

\* C26: handleMessage sends the help hint for a message exactly when the
\* message is not admitted and its text holds a bot-mention term and no
\* trigger keyword; an admitted message never gets the hint, and for one
\* message the hint and the agent never both happen: after the hint the
\* handling ends, and while the agent is at work no hint is on its way.
C26_HintOnlyWhenNotAdmitted ==
    [][ /\ EvaluateStep
           => ( (pc' = "send" /\ out' = HINT)
                  = ( /\ ~Verdict
                      /\ MentionsBot(variant, HandledText)
                      /\ ~ContainsKeyword(variant, HandledText) ) )
        /\ (EvaluateStep /\ Verdict) => out' # HINT
        /\ out = HINT
           => ( /\ pc' \in {"send", "idle", "apology"}
                /\ agentInput' = NoText )
        /\ pc = "agent" => out' # HINT
      ]_vars

\* C26 witness: "/help" was not admitted and the hint is on its way
C26_Witness ==
    /\ pc = "send"
    /\ out = HINT
    /\ message.content = JsStr(T_HELP)
    /\ agentInput = NoText

\* C26 witness for an admitted mention: "/help" arrived while the
\* conversation was awaiting or inside the context window and is with the
\* agent, no hint sent
C26_WitnessAdmitted ==
    /\ pc = "agent"
    /\ out = NoSend
    /\ message.content = JsStr(T_HELP)
    /\ agentInput = T_HELP

\* the store after nothing but the state read of conversation c: a record
\* that is absent, timed out or at the turn ceiling is replaced by the fresh
\* one, every other record is as it was
OnlyReadEffect(c) ==
    /\ \A other \in Convs \ {c} :
          conversationStates'[other] = conversationStates[other]
    /\ IF conversationStates[c] = NoState \/ TimedOut(c) \/ AtCeiling(c)
       THEN conversationStates'[c] = ConversationState(FALSE, <<>>, 0, now)
       ELSE conversationStates'[c] = conversationStates[c]

\* C27: a message that is not admitted and does not qualify for the help
\* hint has no visible effect: handleMessage returns with nothing sent and
\* nothing given to the agent, the tracked sends are as they were, and the
\* conversation states are changed by the state read at most.
C27_IgnoredMessageFrame ==
    [][ ( /\ variant \in {"state", "context"}
          /\ EvaluateStep
          /\ ~Verdict
          /\ ~MentionsBot(variant, HandledText) )
        => ( /\ pc' = "idle"
             /\ out' = NoSend
             /\ agentInput' = NoText
             /\ recentAgentMessages' = recentAgentMessages
             /\ IF variant = "state"
                THEN OnlyReadEffect(message.conversationId)
                ELSE conversationStates' = conversationStates ) ]_vars

\* C27 witness: "no bet" is under evaluation in a conversation whose stored
\* state was awaiting with a command and has timed out, so that the read
\* resets it and the message is not admitted
C27_Witness ==
    /\ variant = "state"
    /\ pc = "evaluate"
    /\ message.content = JsStr(T_NOBET)
    /\ TimedOut(message.conversationId)
    /\ conversationStates[message.conversationId].isWaitingForResponse
    /\ conversationStates[message.conversationId].lastCommand # <<>>

\* C27 witness in the "context" revision: "no bet" is under evaluation after
\* the tracked send aged out
C27_WitnessContext ==
    /\ variant = "context"
    /\ pc = "evaluate"
    /\ message.content = JsStr(T_NOBET)
    /\ message.senderInboxId = USER2
    /\ SentBeforeWindow(message.conversationId)

\* the agent's response for the message being handled is handed to
\* conversation.send
AgentResponds ==
    /\ pc = "agent"
    /\ pc' = "send"

\* the instants at most STATE_TIMEOUT after the present one
WithinTimeout ==
    {t \in Instants("state") : t >= now /\ t - now <= STATE_TIMEOUT}

\* C28 as stated: after every agent response the conversation's state is
\* awaiting with lastCommand the text just processed, and a message
\* handled within STATE_TIMEOUT finds it awaiting.
C28_ResponseLeavesAwaiting ==
    [][ (variant = "state" /\ AgentResponds)
        => LET stored == conversationStates'[conversation]
           IN  /\ stored.isWaitingForResponse
               /\ stored.lastCommand = agentInput
               /\ \A t \in WithinTimeout :
                     getConversationState(conversationStates', conversation, t)
                        .state.isWaitingForResponse ]_vars

\* C28 amended: the stored state is awaiting with lastCommand the text
\* just processed and lastUpdate the present instant, and a message handled
\* within STATE_TIMEOUT finds it awaiting exactly when this response has
\* not brought messageCount to MAX_CONTEXT_MESSAGES.
C28_ResponseAwaitsBelowCeiling ==
    [][ (variant = "state" /\ AgentResponds)
        => LET stored == conversationStates'[conversation]
           IN  /\ stored.isWaitingForResponse
               /\ stored.lastCommand = agentInput
               /\ stored.lastUpdate = now
               /\ \A t \in WithinTimeout :
                     getConversationState(conversationStates', conversation, t)
                        .state.isWaitingForResponse
                     = (stored.messageCount < MAX_CONTEXT_MESSAGES) ]_vars

\* C28 witness: the response to a follow-up is on its way, the state awaits
\* with the follow-up as lastCommand
C28_Witness ==
    /\ variant = "state"
    /\ pc = "send"
    /\ out.kind = "response"
    /\ agentInput = T_NOBET
    /\ conversationStates[conversation].isWaitingForResponse
    /\ conversationStates[conversation].lastCommand = T_NOBET
    /\ conversationStates[conversation].messageCount < MAX_CONTEXT_MESSAGES

\* C28 witness at the ceiling: the response that brought messageCount to
\* MAX_CONTEXT_MESSAGES is on its way
C28_WitnessCeiling ==
    /\ variant = "state"
    /\ pc = "send"
    /\ out.kind = "response"
    /\ conversationStates[conversation].isWaitingForResponse
    /\ conversationStates[conversation].messageCount = MAX_CONTEXT_MESSAGES

(***************************************************************************)
(* The conversation stream and the welcome message                         *)
(***************************************************************************)
\* the callbacks in their timer and the welcome sends in flight
PendingWelcomes ==
    welcome.delay + welcome.send

\* the callback runs to its return (or to its timer) on the event it got
CallbackRuns(e) ==
    /\ welcome.event = e
    /\ welcome'.event = "none"

\* handleMessage and the stores are where they were
HandlerUntouched ==
    /\ pc' = pc
    /\ message' = message
    /\ conversation' = conversation
    /\ agentInput' = agentInput
    /\ out' = out
    /\ conversationStates' = conversationStates
    /\ recentAgentMessages' = recentAgentMessages

\* C29: every event that delivers a group makes the callback send the
\* welcome (at once, or after its timer), whatever the trigger evaluation
\* or the stores would say and wherever handleMessage stands; the timer
\* always ends in the send; no welcome is sent for any other event.
C29_WelcomeForEveryGroup ==
    [][ /\ CallbackRuns("Group")
           => ( /\ PendingWelcomes' = PendingWelcomes + 1
                /\ variant = "state" => welcome'.send = welcome.send + 1
                /\ HandlerUntouched )
        /\ welcome'.delay < welcome.delay
           => ( /\ welcome'.send = welcome.send + 1
                /\ HandlerUntouched )
        /\ \A e \in StreamEvents \ {"Group"} :
              CallbackRuns(e) => PendingWelcomes' = PendingWelcomes
        /\ PendingWelcomes' > PendingWelcomes => CallbackRuns("Group")
      ]_vars

\* C29 witness: a welcome send is in flight while handleMessage, with a
\* message in hand, is suspended in the agent call
C29_Witness ==
    /\ pc = "agent"
    /\ message # NoMessage
    /\ welcome.send > 0

\* C29 witness: a group event is due while handleMessage is suspended in a
\* send and the conversation's state says a follow-up is awaited
C29_WitnessDuringSend ==
    /\ variant = "state"
    /\ pc = "send"
    /\ welcome.event = "Group"
    /\ conversationStates[conversation] # NoState
    /\ conversationStates[conversation].isWaitingForResponse

\* C30: whatever the watcher does (an error event, an absent conversation,
\* a welcome send that fails) stays inside it: the step leaves handleMessage
\* where it was, so the loop is neither ended nor held up, and no
\* conversation state or tracked send is changed; an error event and an
\* absent conversation send nothing.
C30_WatcherFailuresContained ==
    [][ /\ welcome' # welcome => HandlerUntouched
        /\ \A e \in {"error", "absent"} :
              CallbackRuns(e)
              => ( /\ welcome'.delay = welcome.delay
                   /\ welcome'.send = welcome.send )
        /\ welcome'.send < welcome.send
           => ( /\ welcome'.send = welcome.send - 1
                /\ welcome'.delay = welcome.delay
                /\ welcome'.event = welcome.event )
      ]_vars

\* C30 witness: an error event is due and a welcome send is in flight while
\* handleMessage is suspended in the agent call and a store holds an entry
C30_Witness ==
    /\ pc = "agent"
    /\ welcome.event = "error"
    /\ welcome.send > 0
    /\ \E c \in Convs :
          \/ conversationStates[c] # NoState
          \/ recentAgentMessages[c] # NoRecent

(***************************************************************************)
(* The agent's memory                                                      *)
(***************************************************************************)
\* the agent answered the message being handled: the step from the agent to
\* the send of a response that is not processMessage's apology
AgentAnswers ==
    /\ pc = "agent"
    /\ pc' = "send"
    /\ out'.text # SORRY

\* C31: the memory stored for a sender is preserved between handleMessage
\* calls: when the agent answers a message of a sender who already has a
\* memory, that memory holds the earlier turns and the new one.
C31_MemoryAccumulates ==
    [][ AgentAnswers
        => LET userId == message.senderInboxId
           IN  memoryStore[userId].saver # "none"
               => memoryStore'[userId].turns = memoryStore[userId].turns + 1 ]_vars

(***************************************************************************)
(* POST /api/send-message                                                  *)
(***************************************************************************)
\* a header or body field that is absent or empty
Missing(value) ==
    value = JsUndefined \/ value = JsStr(<<>>)

\* conversation.send was called for the request in slot
SendCalled(slot) ==
    api[slot].phase = "send" \/ api[slot].send # "none"

\* the response echoes the request's conversationId and message
Echoes(slot) ==
    /\ api[slot].body.conversationId = api[slot].req.conversationId
    /\ api[slot].body.message = api[slot].req.message

\* C32 as stated: no send without the configured secret, and the status is
\* 401 on a missing or wrong secret, else 400 on a missing conversationId or
\* message, else 404 when the lookup returns nothing, else 500 when the send
\* raises, else 200 with the echo.
C32_StatusInOrder ==
    \A slot \in Slots :
       LET r == api[slot]
       IN  /\ SendCalled(slot) => r.req.agentSecret = RECEIVE_AGENT_SECRET
           /\ r.phase = "done" =>
                 r.status =
                    IF Missing(r.req.agentSecret)
                       \/ r.req.agentSecret # RECEIVE_AGENT_SECRET THEN 401
                    ELSE IF Missing(r.req.conversationId) \/ Missing(r.req.message)
                    THEN 400
                    ELSE IF r.lookup = "null" THEN 404
                    ELSE IF r.send = "throws" THEN 500
                    ELSE 200
           /\ (r.phase = "done" /\ r.status = 200) => Echoes(slot)

\* C32 amended: no send without the configured secret, and the status is 401
\* on a missing or wrong secret, else 400 on a missing conversationId or
\* message, else 500 when the lookup raises, else 404 when it returns
\* nothing, else 500 when the send raises, else 200 with the echo; only a
\* request answered with 200 or with the send's 500 reached the send.
C32_StatusInOrderOrLookupRaises ==
    \A slot \in Slots :
       LET r == api[slot]
       IN  /\ SendCalled(slot) =>
                 /\ r.req.agentSecret = RECEIVE_AGENT_SECRET
                 /\ ~Missing(r.req.conversationId)
                 /\ ~Missing(r.req.message)
                 /\ r.lookup = "found"
           /\ r.phase = "done" =>
                 r.status =
                    IF Missing(r.req.agentSecret)
                       \/ r.req.agentSecret # RECEIVE_AGENT_SECRET THEN 401
                    ELSE IF Missing(r.req.conversationId) \/ Missing(r.req.message)
                    THEN 400
                    ELSE IF r.lookup = "throws" THEN 500
                    ELSE IF r.lookup = "null" THEN 404
                    ELSE IF r.send = "throws" THEN 500
                    ELSE 200
           /\ (r.phase = "done" /\ r.status = 200) =>
                 (Echoes(slot) /\ r.send = "ok")
           /\ (r.phase = "done" /\ r.status # 200) => r.send # "ok"

\* C32 witness: a request with the right secret was answered 500 because its
\* lookup raised, while another was answered 200 after its send
C32_Witness ==
    \E slot, other \in Slots :
       /\ api[slot].phase = "done"
       /\ api[slot].lookup = "throws"
       /\ api[slot].status = 500
       /\ api[other].phase = "done"
       /\ api[other].status = 200

\* C32 witness: a request with the right secret and no message was answered
\* 400 and one with a wrong secret and no message 401
C32_WitnessOrder ==
    \E slot, other \in Slots :
       /\ api[slot].phase = "done"
       /\ api[slot].req.agentSecret = RECEIVE_AGENT_SECRET
       /\ api[slot].req.message = JsUndefined
       /\ api[slot].status = 400
       /\ api[other].phase = "done"
       /\ api[other].req.agentSecret = WRONG_SECRET
       /\ api[other].req.message = JsUndefined
       /\ api[other].status = 401

(***************************************************************************)
(* The turn counter and the awaiting session                               *)
(***************************************************************************)
\* C33: in every reachable state of the "state" revision, whatever messages
\* were handled, however the clock advanced and whichever calls failed, every
\* stored conversation state has 0 <= messageCount <= MAX_CONTEXT_MESSAGES.
C33_CountWithinCeiling ==
    variant = "state" =>
       \A c \in Convs :
          conversationStates[c] # NoState =>
             /\ conversationStates[c].messageCount >= 0
             /\ conversationStates[c].messageCount <= MAX_CONTEXT_MESSAGES

\* C33 witness: a stored state has reached the ceiling and a message from
\* that conversation is about to be evaluated against it
C33_Witness ==
    /\ variant = "state"
    /\ pc = "evaluate"
    /\ conversationStates[message.conversationId] # NoState
    /\ conversationStates[message.conversationId].messageCount = MAX_CONTEXT_MESSAGES

\* C33 witness: a new trigger keyword arrives in an awaiting state one turn
\* below the ceiling, where the handling counts two turns
C33_WitnessTwoTurns ==
    /\ variant = "state"
    /\ pc = "evaluate"
    /\ Awaiting(message.conversationId)
    /\ conversationStates[message.conversationId].messageCount = MAX_CONTEXT_MESSAGES - 1
    /\ CarriesTrigger

\* the message being evaluated carries no trigger keyword and goes to the
\* agent: it is admitted as a follow-up
FollowUpAdmitted ==
    /\ EvaluateStep
    /\ ~CarriesTrigger
    /\ pc' = "agent"

\* C34 as stated: after a message with a trigger keyword at most
\* MAX_CONTEXT_MESSAGES - 1 messages without one are admitted in a row in
\* that conversation, and the untriggered message after them is ignored.
C34_FollowUpsBounded ==
    \A c \in Convs :
       followUps[c].answered + (IF followUps[c].failed THEN 1 ELSE 0)
          <= MAX_CONTEXT_MESSAGES - 1

\* C34 amended: after a message with a trigger keyword at most
\* MAX_CONTEXT_MESSAGES - 1 messages without one are admitted and answered in
\* a row in that conversation; the untriggered message after the last of them
\* is not handed to the agent and finds the state reset, whatever the clock
\* says.  (An admitted follow-up whose handling fails before the state is
\* written uses no turn.)
C34_AnsweredFollowUpsBounded ==
    [][ /\ \A c \in Convs : followUps'[c].answered <= MAX_CONTEXT_MESSAGES - 1
        /\ ( /\ EvaluateStep
             /\ ~CarriesTrigger
             /\ followUps[message.conversationId].answered = MAX_CONTEXT_MESSAGES - 1 )
           => ( /\ pc' # "agent"
                /\ IsFresh(conversationStates'[message.conversationId]) ) ]_vars

\* C34 witness: MAX_CONTEXT_MESSAGES - 1 follow-ups were answered and the
\* next untriggered message is about to be evaluated, at the instant of the
\* last answer
C34_Witness ==
    /\ pc = "evaluate"
    /\ ~CarriesTrigger
    /\ followUps[message.conversationId].answered = MAX_CONTEXT_MESSAGES - 1
    /\ now = 0

\* the stored state of conversation c is neither timed out at instant t (the
\* boundary t - lastUpdate = STATE_TIMEOUT included) nor at the turn ceiling
Live(c, t) ==
    /\ conversationStates[c] # NoState
    /\ t - conversationStates[c].lastUpdate <= STATE_TIMEOUT
    /\ conversationStates[c].messageCount < MAX_CONTEXT_MESSAGES

\* the message being evaluated is not admitted: it goes neither to the agent
\* nor to the bet prompt
NotAdmitted ==
    /\ EvaluateStep
    /\ pc' # "agent"
    /\ ~(pc' = "send" /\ out' = BET_PROMPT)

\* C35: a state read of a record that is neither timed out (at the boundary
\* now - lastUpdate = STATE_TIMEOUT too) nor at the turn ceiling returns the
\* stored record and leaves the store as it is, lastUpdate included; so a
\* message that is read against such a record and not admitted leaves the
\* store, and with it the session's timeout, unchanged.
C35_LiveReadChangesNothing ==
    [][ variant = "state" =>
           /\ \A c \in Convs, t \in Instants("state") :
                 Live(c, t) =>
                    /\ getConversationState(conversationStates, c, t).state
                          = conversationStates[c]
                    /\ getConversationState(conversationStates, c, t).states
                          = conversationStates
           /\ (NotAdmitted /\ Live(message.conversationId, now))
                 => conversationStates' = conversationStates ]_vars

\* C35 witness: a message without a trigger keyword is about to be read
\* against a record that is not awaiting and exactly STATE_TIMEOUT old
C35_Witness ==
    /\ variant = "state"
    /\ pc = "evaluate"
    /\ ~CarriesTrigger
    /\ Live(message.conversationId, now)
    /\ ~conversationStates[message.conversationId].isWaitingForResponse
    /\ now - conversationStates[message.conversationId].lastUpdate = STATE_TIMEOUT

(***************************************************************************)
(* Replies                                                                 *)
(***************************************************************************)
\* the reply-type message being evaluated, from a sender other than the agent
ReplyEvaluated ==
    /\ variant \in {"reply", "context"}
    /\ EvaluateStep
    /\ message.typeId = "reply"

C36_WitnessReply ==
    /\ variant = "reply"
    /\ pc = "evaluate"
    /\ message.typeId = "reply"
    /\ message.reference = "user"
    /\ extractMessageContentReply(message).s = T_NOBET

(***************************************************************************)
(* Failures after the state was written, and failures inside the agent run *)
(***************************************************************************)
\* the send of a response or of the bet prompt fails: the step from the send
\* into the catch block
AnswerSendFails ==
    /\ pc = "send"
    /\ out.kind \in {"response", "betPrompt"}
    /\ pc' \notin {"send", "idle"}

\* the instants from now on at most STATE_TIMEOUT after the record's
\* lastUpdate
StillWithinTimeout(stored) ==
    {t \in Instants("state") : t >= now /\ t - stored.lastUpdate <= STATE_TIMEOUT}

\* C37 as stated: the awaiting state is written before the response or the
\* bet prompt is sent; when that send fails the apology is the only thing
\* sent, the state stays awaiting with the turn counted, and a message read
\* within STATE_TIMEOUT finds it awaiting.
C37_FailedSendLeavesAwaiting ==
    [][ (variant = "state" /\ AnswerSendFails)
        => LET stored == conversationStates'[conversation]
           IN  /\ pc' = "apology"
               /\ out' = Apology(APOLOGY)
               /\ conversationStates' = conversationStates
               /\ stored # NoState
               /\ stored.isWaitingForResponse
               /\ stored.messageCount >= 1
               /\ \A t \in StillWithinTimeout(stored) :
                     getConversationState(conversationStates', conversation, t)
                        .state.isWaitingForResponse ]_vars

\* C37 amended: as stated, except that a message read within STATE_TIMEOUT
\* finds the state awaiting exactly when the write before the failed send has
\* not brought messageCount to MAX_CONTEXT_MESSAGES; the stored lastCommand
\* is the text that was processed ("/squabble start" for the bet prompt).
C37_FailedSendAwaitsBelowCeiling ==
    [][ (variant = "state" /\ AnswerSendFails)
        => LET stored == conversationStates'[conversation]
           IN  /\ pc' = "apology"
               /\ out' = Apology(APOLOGY)
               /\ conversationStates' = conversationStates
               /\ stored # NoState
               /\ stored.isWaitingForResponse
               /\ stored.messageCount >= 1
               /\ stored.lastCommand =
                     IF out.kind = "betPrompt" THEN START_SLASH ELSE agentInput
               /\ \A t \in StillWithinTimeout(stored) :
                     getConversationState(conversationStates', conversation, t)
                        .state.isWaitingForResponse
                     = (stored.messageCount < MAX_CONTEXT_MESSAGES) ]_vars

\* C37 witness: the send of a response to a follow-up has failed and the
\* apology is on its way, the state awaiting with the follow-up counted
C37_Witness ==
    /\ variant = "state"
    /\ pc = "apology"
    /\ agentInput = T_NOBET
    /\ conversationStates[conversation].isWaitingForResponse
    /\ conversationStates[conversation].lastCommand = T_NOBET
    /\ conversationStates[conversation].messageCount = 2

\* C38: when the agent's stream raises inside processMessage, handleMessage
\* does not enter its catch block: the fixed apology of processMessage goes
\* to the send as the response, the "state" revision writes the awaiting
\* state with the turn counted as after any answer, and the "context"
\* revision tracks that send when it completes.
C38_AgentFailureIsAnAnswer ==
    [][ /\ \A outcome \in AgentOutcomes :
              ( /\ variant \in {"state", "context"}
                /\ outcome.k = "streamThrows"
                /\ AgentDone(outcome) )
              => ( /\ pc' = "send"
                   /\ out' = Response(SORRY)
                   /\ out' # Apology(APOLOGY)
                   /\ recentAgentMessages' = recentAgentMessages
                   /\ variant = "context" => conversationStates' = conversationStates
                   /\ variant = "state" =>
                         /\ conversationStates'[conversation] =
                               ConversationState(TRUE, agentInput,
                                  CurrentState(conversation).messageCount + 1, now)
                         /\ \A c \in Convs \ {conversation} :
                               conversationStates'[c] = conversationStates[c] )
        /\ ( /\ variant = "context"
             /\ pc = "send"
             /\ out = Response(SORRY)
             /\ pc' = "idle" )
           => ( /\ recentAgentMessages'[conversation] # NoRecent
                /\ recentAgentMessages'[conversation].timestamp = now ) ]_vars

\* C38 witness: processMessage's apology is on its way as the response of
\* the "state" revision, the state awaiting
C38_Witness ==
    /\ variant = "state"
    /\ pc = "send"
    /\ out = Response(SORRY)
    /\ conversationStates[conversation].isWaitingForResponse

\* C38 witness: the same send in the "context" revision, in a conversation
\* with no tracked send yet
C38_WitnessContext ==
    /\ variant = "context"
    /\ pc = "send"
    /\ out = Response(SORRY)
    /\ recentAgentMessages[conversation] = NoRecent

(***************************************************************************)
(* Progress of the dispatch loop                                           *)
(***************************************************************************)
\* C39: when every external call settles, every admitted message (one that
\* reached the agent) comes to a terminal outcome, the response sent, the
\* response suppressed, or the apology sent, and the loop is back at the
\* stream waiting for the next message.
C39_AdmittedMessageTerminates ==
    (variant = "context" /\ pc = "agent") ~> (pc = "idle")

====
